---- MODULE Spec2Model ----
(***************************************************************************)
(* Movement/state core of the Claudequarium browser client: the grid       *)
(* pathfinder (A* over the collision grid), the path smoother, the         *)
(* per-entity state queue with minimum display time, path following,       *)
(* arrival, wandering, and the workstation assignment tables.              *)
(*                                                                         *)
(* Conventions.                                                            *)
(*  - JavaScript arrays are 0-based, TLA+ sequences 1-based: array index i *)
(*    is sequence index i+1.  pathIndex keeps the source's 0-based value.  *)
(*  - null is "null" for a state, NoZone for a zone and <<>> for a path    *)
(*    (the source treats a null path and an empty path alike).             *)
(*  - tileKey's string "x,y" is the pair <<x, y>>: both are injective on   *)
(*    integer pairs and keyToTile inverts them.                            *)
(*  - Pixel coordinates, speeds and times are integers (px, px/s, ms);     *)
(*    a float result is truncated to an integer.                           *)
(*  - Date.now() is the variable now.  The code only reads differences     *)
(*    (now - currentStateStartTime, now versus nextWanderTime), so time    *)
(*    is kept relative to a sliding origin: now stays at Epoch and a frame *)
(*    lowers the stored timestamps instead (see advanceTime).              *)
(*  - Fields that only the renderer reads (appearance, color, spawnTime,   *)
(*    animationFrame, animationTimer, the wave flags) are left out.        *)
(***************************************************************************)
EXTENDS Integers, Sequences, FiniteSets, TLC

VARIABLES
    mapData,          \* mapData.js: the loaded map (dimensions, collision grid, zones)
    entities,         \* state.js: Map entityId -> entity record
    spawnOrder,       \* state.js: ids in insertion order (the entities Map iterates in it)
    zoneAssignments,  \* state.js: Map zoneId -> entityId
    entityZoneMap,    \* state.js: Map "entityId:workstations" -> zoneId
    now,              \* Date.now()
    pq,               \* the pathfinder call under check: its arguments and position
    pr,               \* the result of that call
    frame             \* main.js lastFrameTime, which every frame changes: kept as a parity

vars == <<mapData, entities, spawnOrder, zoneAssignments, entityZoneMap, now, pq, pr, frame>>

Null == "null"
NoZone == [id |-> Null]
NoPath == <<>>
NoResult == [path |-> NoPath, iterations |-> 0]

Min(a, b) == IF a < b THEN a ELSE b
Max(a, b) == IF a > b THEN a ELSE b
Abs(a) == IF a < 0 THEN -a ELSE a

\* f with key k set to v (Map.set)
MapSet(f, k, v) == [j \in DOMAIN f \cup {k} |-> IF j = k THEN v ELSE f[j]]
\* f without key k (Map.delete)
MapDelete(f, k) == [j \in DOMAIN f \ {k} |-> f[j]]
EmptyMap == [j \in {} |-> 0]

(***************************************************************************)
(* mapData.js                                                              *)
(***************************************************************************)

Point(px, py) == [x |-> px, y |-> py]

getMapDimensions(m) ==
    [tilesX |-> m.map.width, tilesY |-> m.map.height,
     tileWidth |-> m.map.tileWidth, tileHeight |-> m.map.tileHeight]

isTileWalkable(m, tileX, tileY) ==
    IF tileX < 0 \/ tileX >= m.map.width \/ tileY < 0 \/ tileY >= m.map.height
    THEN FALSE
    ELSE ~m.unifiedCollisionGrid[tileY][tileX]

pixelToTile(m, pixelX, pixelY) ==
    Point(pixelX \div m.map.tileWidth, pixelY \div m.map.tileHeight)

tileToPixel(m, tileX, tileY) ==
    Point(tileX * m.map.tileWidth + m.map.tileWidth \div 2,
          tileY * m.map.tileHeight + m.map.tileHeight \div 2)

(***************************************************************************)
(* pathfinding.js: MinHeap                                                 *)
(***************************************************************************)

tileKey(x, y) == <<x, y>>
keyToTile(key) == Point(key[1], key[2])

heuristic(a, b) == Abs(a.x - b.x) + Abs(a.y - b.y)

NewHeap == [heap |-> <<>>, keyToIndex |-> EmptyMap]

HeapIsEmpty(h) == Len(h.heap) = 0
HeapHas(h, key) == key \in DOMAIN h.keyToIndex

HeapSwap(h, i, j) ==
    LET hp == [h.heap EXCEPT ![i] = h.heap[j], ![j] = h.heap[i]]
    IN [heap |-> hp,
        keyToIndex |-> MapSet(MapSet(h.keyToIndex, hp[i].node.key, i), hp[j].node.key, j)]

RECURSIVE BubbleUp(_, _)
BubbleUp(h, index) ==
    IF index <= 1 THEN h
    ELSE LET parentIndex == index \div 2
         IN IF h.heap[parentIndex].priority <= h.heap[index].priority THEN h
            ELSE BubbleUp(HeapSwap(h, index, parentIndex), parentIndex)

RECURSIVE BubbleDown(_, _)
BubbleDown(h, index) ==
    LET length == Len(h.heap)
        leftChild == 2 * index
        rightChild == 2 * index + 1
        s1 == IF leftChild <= length /\ h.heap[leftChild].priority < h.heap[index].priority
              THEN leftChild ELSE index
        smallest == IF rightChild <= length /\ h.heap[rightChild].priority < h.heap[s1].priority
                    THEN rightChild ELSE s1
    IN IF smallest = index THEN h
       ELSE BubbleDown(HeapSwap(h, index, smallest), smallest)

HeapInsert(h, node, priority) ==
    LET hp == Append(h.heap, [node |-> node, priority |-> priority])
        index == Len(hp)
    IN BubbleUp([heap |-> hp, keyToIndex |-> MapSet(h.keyToIndex, node.key, index)], index)

\* an extractMin that hands out the minimum and leaves it in the heap
HeapExtractMinKeeps(h) == [min |-> h.heap[1].node, heap |-> h]

\* extractMin of a non-empty heap: the node taken and the heap left
HeapExtractMin(h) ==
    LET min == h.heap[1].node
        k1 == MapDelete(h.keyToIndex, min.key)
        lastE == h.heap[Len(h.heap)]
        popped == SubSeq(h.heap, 1, Len(h.heap) - 1)
    IN IF Len(popped) = 0
       THEN [min |-> min, heap |-> [heap |-> popped, keyToIndex |-> k1]]
       ELSE [min |-> min,
             heap |-> BubbleDown([heap |-> [popped EXCEPT ![1] = lastE],
                                  keyToIndex |-> MapSet(k1, lastE.node.key, 1)], 1)]

HeapDecreaseKey(h, key, newPriority) ==
    IF key \notin DOMAIN h.keyToIndex THEN h
    ELSE LET index == h.keyToIndex[key]
         IN BubbleUp([h EXCEPT !.heap[index].priority = newPriority], index)


(***************************************************************************)
(* pathfinding.js: A* search                                               *)
(***************************************************************************)

NoTile == [none |-> TRUE]

\* the spiral of findNearestWalkable: radius, then dx, then dy, perimeter cells only
\* (the loop over dy is the least hit of the column from dy on)
RECURSIVE NearestScan(_, _, _, _, _, _, _)
NearestScan(m, tileX, tileY, radius, dx, dy, maxRadius) ==
    IF radius > maxRadius THEN NoTile
    ELSE IF dx > radius
         THEN NearestScan(m, tileX, tileY, radius + 1, -(radius + 1), -(radius + 1), maxRadius)
    ELSE LET hits == {y \in dy..radius :
                         /\ Abs(dx) = radius \/ Abs(y) = radius
                         /\ isTileWalkable(m, tileX + dx, tileY + y)}
         IN IF hits # {}
            THEN Point(tileX + dx, tileY + (CHOOSE y \in hits : \A y2 \in hits : y <= y2))
            ELSE NearestScan(m, tileX, tileY, radius, dx + 1, -radius, maxRadius)

NEAREST_MAX_RADIUS == 5

\* a search that leaves out the ring of radius 1
findNearestWalkableFar(m, tileX, tileY) ==
    IF isTileWalkable(m, tileX, tileY) THEN Point(tileX, tileY)
    ELSE NearestScan(m, tileX, tileY, 2, -2, -2, NEAREST_MAX_RADIUS)

findNearestWalkable(m, tileX, tileY) ==
    IF isTileWalkable(m, tileX, tileY) THEN Point(tileX, tileY)
    ELSE NearestScan(m, tileX, tileY, 1, -1, -1, NEAREST_MAX_RADIUS)

\* a reconstruction that leaves the start tile out of the path
RECURSIVE reconstructPathNoStart(_, _)
reconstructPathNoStart(cameFrom, currentKey) ==
    IF currentKey \in DOMAIN cameFrom
    THEN Append(reconstructPathNoStart(cameFrom, cameFrom[currentKey]), keyToTile(currentKey))
    ELSE <<>>

RECURSIVE reconstructPath(_, _)
reconstructPath(cameFrom, currentKey) ==
    IF currentKey \in DOMAIN cameFrom
    THEN Append(reconstructPath(cameFrom, cameFrom[currentKey]), keyToTile(currentKey))
    ELSE <<keyToTile(currentKey)>>

\* 4-directional movement: up, down, left, right
neighbors == <<[dx |-> 0, dy |-> -1], [dx |-> 0, dy |-> 1],
               [dx |-> -1, dy |-> 0], [dx |-> 1, dy |-> 0]>>

\* the body of the neighbour loop for one neighbour of current
RelaxNeighbor(m, S, current, d, goal) ==
    LET nx == current.x + d.dx
        ny == current.y + d.dy
        neighborKey == tileKey(nx, ny)
    IN IF neighborKey \in S.closedSet \/ ~isTileWalkable(m, nx, ny) THEN S
       ELSE LET tentativeG == S.gScore[current.key] + 1
            IN IF neighborKey \notin DOMAIN S.gScore \/ tentativeG < S.gScore[neighborKey]
               THEN LET f == tentativeG + heuristic(Point(nx, ny), goal)
                    IN [S EXCEPT
                          !.cameFrom = MapSet(S.cameFrom, neighborKey, current.key),
                          !.gScore = MapSet(S.gScore, neighborKey, tentativeG),
                          !.fScore = MapSet(S.fScore, neighborKey, f),
                          !.openSet = IF ~HeapHas(S.openSet, neighborKey)
                                      THEN HeapInsert(S.openSet,
                                               [x |-> nx, y |-> ny, key |-> neighborKey], f)
                                      ELSE HeapDecreaseKey(S.openSet, neighborKey, f)]
               ELSE S

RECURSIVE RelaxAll(_, _, _, _, _)
RelaxAll(m, S, current, i, goal) ==
    IF i > Len(neighbors) THEN S
    ELSE RelaxAll(m, RelaxNeighbor(m, S, current, neighbors[i], goal), current, i + 1, goal)

\* one iteration of the while loop of findTilePath; S.done is set by the return
\* inside the loop and by the loop ending on an empty open set
SearchStep(m, S, goal) ==
    IF S.done THEN S
    ELSE IF HeapIsEmpty(S.openSet) THEN [S EXCEPT !.done = TRUE]
    ELSE LET ex == HeapExtractMin(S.openSet)
             current == ex.min
         IN IF current.x = goal.x /\ current.y = goal.y
            THEN [S EXCEPT !.done = TRUE, !.iterations = @ + 1,
                           !.path = reconstructPath(S.cameFrom, current.key)]
            ELSE RelaxAll(m, [S EXCEPT !.openSet = ex.heap,
                                       !.closedSet = @ \cup {current.key},
                                       !.iterations = @ + 1],
                          current, 1, goal)

\* n iterations of the loop (split in halves: the evaluation depth stays logarithmic)
RECURSIVE SearchSteps(_, _, _, _)
SearchSteps(m, S, goal, n) ==
    IF n <= 0 \/ S.done THEN S
    ELSE IF n = 1 THEN SearchStep(m, S, goal)
    ELSE SearchSteps(m, SearchSteps(m, S, goal, n \div 2), goal, n - n \div 2)

\* a cap of one iteration for each column of the map
MaxIterationsWidth(m) == m.map.width

MaxIterations(m) == m.map.width * m.map.height * 2

\* the state of the search before the first iteration
SearchStart(adjustedStart, adjustedGoal) ==
    LET startKey == tileKey(adjustedStart.x, adjustedStart.y)
        f0 == heuristic(adjustedStart, adjustedGoal)
    IN [openSet |-> HeapInsert(NewHeap,
                        [x |-> adjustedStart.x, y |-> adjustedStart.y, key |-> startKey], f0),
        closedSet |-> {},
        cameFrom |-> EmptyMap,
        gScore |-> MapSet(EmptyMap, startKey, 0),
        fScore |-> MapSet(EmptyMap, startKey, f0),
        iterations |-> 0, done |-> FALSE, path |-> NoPath]

\* findTilePath with the number of loop iterations it made
findTilePathRun(m, start, goal) ==
    LET adjustedGoal == IF ~isTileWalkable(m, goal.x, goal.y)
                        THEN findNearestWalkable(m, goal.x, goal.y) ELSE goal
        adjustedStart == IF ~isTileWalkable(m, start.x, start.y)
                         THEN findNearestWalkable(m, start.x, start.y) ELSE start
    IN IF adjustedGoal = NoTile THEN [path |-> NoPath, iterations |-> 0]
       ELSE IF adjustedStart = NoTile THEN [path |-> NoPath, iterations |-> 0]
       ELSE IF adjustedStart.x = adjustedGoal.x /\ adjustedStart.y = adjustedGoal.y
            THEN [path |-> <<adjustedGoal>>, iterations |-> 0]
       ELSE LET S == SearchSteps(m, SearchStart(adjustedStart, adjustedGoal),
                                 adjustedGoal, MaxIterations(m))
            IN [path |-> S.path, iterations |-> S.iterations]

\* a search that, once an earlier call has left a result, runs from the goal back
\* to the start
findTilePathBackwards(m, start, goal) ==
    IF pr = NoResult THEN findTilePathRun(m, start, goal).path
    ELSE LET back == findTilePathRun(m, goal, start).path
         IN [i \in 1..Len(back) |-> back[Len(back) + 1 - i]]

findTilePath(m, start, goal) == findTilePathRun(m, start, goal).path

findPath(m, startX, startY, goalX, goalY) ==
    LET startTile == pixelToTile(m, startX, startY)
        goalTile == pixelToTile(m, goalX, goalY)
        tilePath == findTilePath(m, startTile, goalTile)
    IN [i \in 1..Len(tilePath) |-> tileToPixel(m, tilePath[i].x, tilePath[i].y)]

(***************************************************************************)
(* pathfinding.js: path smoothing and directions                           *)
(***************************************************************************)

RECURSIVE LineTilesFrom(_, _, _, _, _, _, _, _, _)
LineTilesFrom(x, y, x1, y1, dx, dy, sx, sy, err) ==
    IF x = x1 /\ y = y1 THEN <<Point(x, y)>>
    ELSE LET e2 == 2 * err
             stepX == e2 > -dy
             err1 == IF stepX THEN err - dy ELSE err
             xn == IF stepX THEN x + sx ELSE x
             stepY == e2 < dx
             err2 == IF stepY THEN err1 + dx ELSE err1
             yn == IF stepY THEN y + sy ELSE y
         IN <<Point(x, y)>> \o LineTilesFrom(xn, yn, x1, y1, dx, dy, sx, sy, err2)

getLineTiles(x0, y0, x1, y1) ==
    LET dx == Abs(x1 - x0)
        dy == Abs(y1 - y0)
        sx == IF x0 < x1 THEN 1 ELSE -1
        sy == IF y0 < y1 THEN 1 ELSE -1
    IN LineTilesFrom(x0, y0, x1, y1, dx, dy, sx, sy, dx - dy)

hasLineOfSight(m, from, to) ==
    LET fromTile == pixelToTile(m, from.x, from.y)
        toTile == pixelToTile(m, to.x, to.y)
        tiles == getLineTiles(fromTile.x, fromTile.y, toTile.x, toTile.y)
    IN \A i \in 1..Len(tiles) : isTileWalkable(m, tiles[i].x, tiles[i].y)

\* a scan that jumps to the last waypoint whatever lies in between
FurthestIsLast(m, path, current) == Len(path)

\* the furthest later waypoint in line of sight of path[current], else the next one
Furthest(m, path, current) ==
    LET seen == {i \in (current + 2)..Len(path) : hasLineOfSight(m, path[current], path[i])}
    IN IF seen = {} THEN current + 1
       ELSE CHOOSE i \in seen : \A j \in seen : j <= i

RECURSIVE SmoothFrom(_, _, _)
SmoothFrom(m, path, current) ==
    IF current >= Len(path) THEN <<>>
    ELSE LET furthest == Furthest(m, path, current)
         IN <<path[furthest]>> \o SmoothFrom(m, path, furthest)

\* a smoothing that forgets the first waypoint
smoothPathTail(m, path) == SmoothFrom(m, path, 1)

smoothPath(m, path) ==
    IF Len(path) < 3 THEN path
    ELSE <<path[1]>> \o SmoothFrom(m, path, 1)

getDirection(fromX, fromY, toX, toY) ==
    LET dx == toX - fromX
        dy == toY - fromY
    IN IF Abs(dx) > Abs(dy)
       THEN (IF dx > 0 THEN "right" ELSE "left")
       ELSE (IF dy > 0 THEN "down" ELSE "up")

facingToDirection(facing) ==
    IF facing = "away" THEN "up"
    ELSE IF facing = "toward" THEN "down"
    ELSE Null


(***************************************************************************)
(* Map fixtures.  mapData.json is loaded at run time and is not part of    *)
(* the sources: the maps below are inputs.                                 *)
(***************************************************************************)

\* the collision grid blocked[y][x] with exactly the cells of blockedCells blocked
GridOf(w, h, blockedCells) ==
    [y \in 0..(h - 1) |-> [x \in 0..(w - 1) |-> <<x, y>> \in blockedCells]]

MakeMap(w, h, tile, blockedCells, ws, plan, think, idle) ==
    [map |-> [width |-> w, height |-> h, tileWidth |-> tile, tileHeight |-> tile,
              pixelWidth |-> w * tile, pixelHeight |-> h * tile],
     unifiedCollisionGrid |-> GridOf(w, h, blockedCells),
     workstations |-> ws, planningZones |-> plan,
     thinkingZones |-> think, idleZones |-> idle]

Cells(w, h) == (0..(w - 1)) \X (0..(h - 1))

\* bounds of the grids the pathfinder is checked on
GridW == 3
GridH == 3
MaxBlocked == 2
PathTile == 16

SmallGridMaps ==
    {MakeMap(GridW, GridH, PathTile, b, <<>>, <<>>, <<>>, <<>>) :
        b \in {c \in SUBSET Cells(GridW, GridH) : Cardinality(c) <= MaxBlocked}}

\* the 10 x 10 grid with column 5 blocked in rows 0..8
WallMap == MakeMap(10, 10, PathTile, {<<5, y>> : y \in 0..8}, <<>>, <<>>, <<>>, <<>>)

(***************************************************************************)
(* Reference: breadth-first search                                         *)
(***************************************************************************)

WalkableNeighbors(m, c) ==
    {n \in {<<c[1], c[2] - 1>>, <<c[1], c[2] + 1>>, <<c[1] - 1, c[2]>>, <<c[1] + 1, c[2]>>} :
        isTileWalkable(m, n[1], n[2])}

\* number of tiles of a shortest 4-connected path to goal, 0 when there is none
RECURSIVE BfsTiles(_, _, _, _, _)
BfsTiles(m, frontier, seen, goal, tiles) ==
    IF goal \in frontier THEN tiles
    ELSE LET next == (UNION {WalkableNeighbors(m, c) : c \in frontier}) \ seen
         IN IF next = {} THEN 0
            ELSE BfsTiles(m, next, seen \cup next, goal, tiles + 1)

BfsPathTiles(m, start, goal) ==
    BfsTiles(m, {<<start.x, start.y>>}, {<<start.x, start.y>>}, <<goal.x, goal.y>>, 1)


(***************************************************************************)
(* config.js                                                               *)
(***************************************************************************)

MOVE_SPEED == 150
MIN_STATE_DISPLAY_MS == 4000
PATH_ARRIVAL_THRESHOLD == 4
WANDER_MIN_DELAY_MS == 3000
WANDER_MAX_DELAY_MS == 6000
ZONE_PADDING == 8
MAX_DELTA_MS == 100

GAME_STATES == {"SPAWNED", "THINKING", "PLANNING", "CODING", "IDLE"}
ActivityStates == {"THINKING", "PLANNING", "CODING", "IDLE"}

(***************************************************************************)
(* Bounds of the entity model                                              *)
(***************************************************************************)

NumAgents == 1       \* entity ids 1..NumAgents of the general specification
MaxQueue == 2        \* a state request is taken only while fewer than this many are queued
RandDen == 2         \* Math.random() takes the values k / RandDen, 0 <= k < RandDen
Epoch == 4000        \* the value of Date.now() (time is relative to a sliding origin)

Agents == 1..NumAgents
Rand == 0..(RandDen - 1)
\* milliseconds between two frames
FrameIntervals == {2000}

(***************************************************************************)
(* mapData.js: zones                                                       *)
(***************************************************************************)

Zone(id, x, y, width, height, facing) ==
    [id |-> id, x |-> x, y |-> y, width |-> width, height |-> height,
     centerX |-> x + width \div 2, centerY |-> y + height \div 2, facing |-> facing]

getZonesByType(m, type) == m[type]

\* a lookup that sends every other state to the idle zones
getZonesForStateOrIdle(m, state) ==
    IF state = "CODING" THEN getZonesByType(m, "workstations")
    ELSE IF state = "PLANNING" THEN getZonesByType(m, "planningZones")
    ELSE IF state = "THINKING" THEN getZonesByType(m, "thinkingZones")
    ELSE getZonesByType(m, "idleZones")

getZonesForState(m, state) ==
    IF state = "CODING" THEN getZonesByType(m, "workstations")
    ELSE IF state = "PLANNING" THEN getZonesByType(m, "planningZones")
    ELSE IF state = "THINKING" THEN getZonesByType(m, "thinkingZones")
    ELSE IF state = "IDLE" THEN getZonesByType(m, "idleZones")
    ELSE <<>>

\* a lookup that finds no zone
getZoneByIdNone(m, id) == NoZone

\* zones.find(z => z.id === id) || null
FindZone(zones, id) ==
    LET hit == {i \in 1..Len(zones) : zones[i].id = id}
    IN IF hit = {} THEN NoZone ELSE zones[CHOOSE i \in hit : \A j \in hit : i <= j]

getZoneById(m, id) ==
    FindZone(m.workstations \o m.planningZones \o m.thinkingZones \o m.idleZones, id)

\* the points getRandomPointInZone can return, one for each pair of values of Math.random()
getRandomPointInZone(zone) ==
    {Point(zone.x + ZONE_PADDING + (rx * (zone.width - ZONE_PADDING * 2)) \div RandDen,
           zone.y + ZONE_PADDING + (ry * (zone.height - ZONE_PADDING * 2)) \div RandDen) :
        rx \in Rand, ry \in Rand}

\* the scan of getSpawnPoint over the right half of the map, column by column
RECURSIVE SpawnScan(_, _, _)
SpawnScan(m, x, y) ==
    IF 2 * x < m.map.width THEN NoTile
    ELSE IF y >= m.map.height - 3 THEN SpawnScan(m, x - 1, 3)
    ELSE IF isTileWalkable(m, x, y) THEN Point(x, y)
    ELSE SpawnScan(m, x, y + 1)

getSpawnPoint(m) ==
    LET t == SpawnScan(m, m.map.width - 3, 3)
    IN IF t # NoTile THEN tileToPixel(m, t.x, t.y)
       ELSE IF Len(m.idleZones) > 0
            THEN Point(m.idleZones[1].centerX, m.idleZones[1].centerY)
       ELSE Point(m.map.pixelWidth \div 2, m.map.pixelHeight \div 2)

(***************************************************************************)
(* The maps the entities live on (tiles of 16 px, 5 x 3 tiles):            *)
(*      ws1   .    idle2  think1 think1                                    *)
(*      .     #    .      #      .                                         *)
(*      plan1 .    idle1  idle1  think2                                    *)
(* OfficeMap has every category; DeskMap has two workstations and no       *)
(* planning zone.                                                          *)
(***************************************************************************)

OfficeBlocked == {<<1, 1>>, <<3, 1>>}

Ws1 == Zone("ws1", 0, 0, 16, 12, "away")
Ws2 == Zone("ws2", 16, 0, 16, 12, "away")
Plan1 == Zone("plan1", 0, 32, 16, 16, "toward")
Think1 == Zone("think1", 48, 0, 32, 16, Null)
Think2 == Zone("think2", 64, 32, 16, 16, Null)
Idle1 == Zone("idle1", 32, 32, 32, 16, Null)
Idle2 == Zone("idle2", 32, 0, 16, 16, Null)

OfficeMap == MakeMap(5, 3, 16, OfficeBlocked, <<Ws1>>, <<Plan1>>, <<Think1, Think2>>,
                     <<Idle1, Idle2>>)
DeskMap == MakeMap(5, 3, 16, OfficeBlocked, <<Ws1, Ws2>>, <<>>, <<Think1>>, <<Idle1>>)

EntityMaps == {OfficeMap, DeskMap}

\* a map with a planning zone that no path leads to, and a planning zone on the
\* spot where agents spawn:
\*      ws1   .    .      think1 think1
\*      #     .    .      .      .
\*      plan1 #    plan2  .      .          (plan2 = idle3)
WalledBlocked == {<<0, 1>>, <<1, 2>>}
Plan2 == Zone("plan2", 32, 32, 16, 16, "toward")
Idle3 == Zone("idle3", 32, 32, 16, 16, Null)
WalledMap == MakeMap(5, 3, 16, WalledBlocked, <<Ws1>>, <<Plan1, Plan2>>, <<Think1>>, <<Idle3>>)

(***************************************************************************)
(* state.js: workstation assignment.  A world w is the mutable state the   *)
(* entity code works on: [entities, zoneAssignments, entityZoneMap, now].  *)
(***************************************************************************)

World ==
    [entities |-> entities, zoneAssignments |-> zoneAssignments,
     entityZoneMap |-> entityZoneMap, now |-> now]

\* the key `${entityId}:${zoneType}` of entityZoneMap
ZoneKey(entityId, zoneType) == <<entityId, zoneType>>

getAssignedZone(m, w, entityId, zoneType) ==
    IF ZoneKey(entityId, zoneType) \notin DOMAIN w.entityZoneMap THEN NoZone
    ELSE FindZone(getZonesByType(m, zoneType), w.entityZoneMap[ZoneKey(entityId, zoneType)])

getEntityWorkstation(m, w, entityId) == getAssignedZone(m, w, entityId, "workstations")

\* an assignment that hands out the first workstation whoever occupies it
assignWorkstationAny(m, w, entityId) ==
    LET workstations == getZonesByType(m, "workstations")
    IN IF Len(workstations) = 0 THEN [w |-> w, zone |-> NoZone]
       ELSE [w |-> [w EXCEPT
                      !.zoneAssignments = MapSet(@, workstations[1].id, entityId),
                      !.entityZoneMap = MapSet(@, ZoneKey(entityId, "workstations"),
                                               workstations[1].id)],
             zone |-> workstations[1]]

\* the world after the call and the zone returned
assignWorkstation(m, w, entityId) ==
    LET existing == getAssignedZone(m, w, entityId, "workstations")
        workstations == getZonesByType(m, "workstations")
        free == {i \in 1..Len(workstations) : workstations[i].id \notin DOMAIN w.zoneAssignments}
    IN IF existing # NoZone THEN [w |-> w, zone |-> existing]
       ELSE IF free = {} THEN [w |-> w, zone |-> NoZone]
       ELSE LET workstation == workstations[CHOOSE i \in free : \A j \in free : i <= j]
            IN [w |-> [w EXCEPT
                         !.zoneAssignments = MapSet(@, workstation.id, entityId),
                         !.entityZoneMap = MapSet(@, ZoneKey(entityId, "workstations"),
                                                  workstation.id)],
                zone |-> workstation]

\* a release that forgets the agent's entry and leaves the workstation occupied
releaseWorkstationHalf(w, entityId) ==
    [w EXCEPT !.entityZoneMap = MapDelete(@, ZoneKey(entityId, "workstations"))]

releaseWorkstation(w, entityId) ==
    LET key == ZoneKey(entityId, "workstations")
    IN IF key \notin DOMAIN w.entityZoneMap THEN w
       ELSE [w EXCEPT !.zoneAssignments = MapDelete(@, w.entityZoneMap[key]),
                      !.entityZoneMap = MapDelete(@, key)]

clearEntityAssignments(w, entityId) ==
    LET keysToDelete == {k \in DOMAIN w.entityZoneMap : k[1] = entityId}
    IN [w EXCEPT
          !.zoneAssignments =
              [z \in DOMAIN @ \ {w.entityZoneMap[k] : k \in keysToDelete} |-> @[z]],
          !.entityZoneMap = [k \in DOMAIN @ \ keysToDelete |-> @[k]]]

clearAllAssignments(w) ==
    [w EXCEPT !.zoneAssignments = EmptyMap, !.entityZoneMap = EmptyMap]

(***************************************************************************)
(* entities/create.js, entities/state.js: the entity record and its queue  *)
(***************************************************************************)

createEntity(m, t, data) ==
    LET spawnPoint == getSpawnPoint(m)
    IN [id |-> data.entity_id,
        state |-> data.state,
        visualState |-> "SPAWNED",
        targetState |-> Null,
        x |-> spawnPoint.x,
        y |-> spawnPoint.y,
        path |-> <<>>,
        pathIndex |-> 0,
        targetZone |-> NoZone,
        isMoving |-> FALSE,
        direction |-> "down",
        currentStateStartTime |-> t,
        stateQueue |-> <<>>,
        wanderZone |-> NoZone,
        nextWanderTime |-> 0,
        currentSpeed |-> MOVE_SPEED]

SetEntity(w, id, e) == [w EXCEPT !.entities = MapSet(@, id, e)]

\* a queueing that also cancels the movement in progress
queueStateChangeCancels(w, id, newState) ==
    SetEntity(w, id,
              [w.entities[id] EXCEPT
                 !.stateQueue = Append(@, [state |-> newState, queuedAt |-> w.now]),
                 !.isMoving = FALSE,
                 !.path = <<>>,
                 !.pathIndex = 0])

queueStateChange(w, id, newState) ==
    SetEntity(w, id,
              [w.entities[id] EXCEPT
                 !.stateQueue = Append(@, [state |-> newState, queuedAt |-> w.now])])

\* a collapse that keeps the first entry of the run at the front
RECURSIVE CollapseQueueKeepsFirst(_)
CollapseQueueKeepsFirst(q) ==
    IF Len(q) > 1 /\ q[1].state = q[2].state
    THEN CollapseQueueKeepsFirst(<<q[1]>> \o SubSeq(q, 3, Len(q)))
    ELSE q

\* the while loop that collapses redundant consecutive states
RECURSIVE CollapseQueue(_)
CollapseQueue(q) ==
    IF Len(q) > 1 /\ q[1].state = q[2].state THEN CollapseQueue(Tail(q)) ELSE q

\* the smoothed path as it is, ending at a tile centre
WithoutExactTarget(smoothed, tx, ty) == smoothed

\* smoothPath's result with the exact target point as final waypoint
WithExactTarget(smoothed, tx, ty) ==
    LET lastWaypoint == smoothed[Len(smoothed)]
    IN IF lastWaypoint.x # tx \/ lastWaypoint.y # ty
       THEN Append(smoothed, Point(tx, ty))
       ELSE smoothed

\* getTargetZone: every (world, zone) the call can end with
getTargetZone(m, w, id, state) ==
    IF state = "CODING"
    THEN LET existingWorkstation == getEntityWorkstation(m, w, id)
         IN IF existingWorkstation # NoZone
            THEN {[w |-> w, zone |-> existingWorkstation]}
            ELSE {assignWorkstation(m, w, id)}
    ELSE LET zones == getZonesForState(m, state)
         IN IF Len(zones) = 0 THEN {[w |-> w, zone |-> NoZone]}
            ELSE IF state = "THINKING" \/ state = "IDLE"
                 THEN {[w |-> w,
                        zone |-> [zones[i] EXCEPT !.centerX = pt.x, !.centerY = pt.y]] :
                           <<i, pt>> \in UNION {{<<j, q>> : q \in getRandomPointInZone(zones[j])} :
                                                 j \in 1..Len(zones)}}
                 ELSE {[w |-> w, zone |-> zones[i]] : i \in 1..Len(zones)}

\* a transition step that gives up: nothing is put back and nothing starts
GiveUpTransition(m, w, id, nextStateInfo, targetZone) == w

\* the rest of processStateQueue once the target zone is known
BeginTransition(m, w, id, nextStateInfo, targetZone) ==
    LET e == w.entities[id]
    IN IF targetZone = NoZone
       THEN SetEntity(w, id, [e EXCEPT !.stateQueue = <<nextStateInfo>> \o @])
       ELSE LET path == findPath(m, e.x, e.y, targetZone.centerX, targetZone.centerY)
            IN SetEntity(w, id,
                 [e EXCEPT
                    !.path = IF Len(path) = 0
                             THEN <<Point(targetZone.centerX, targetZone.centerY)>>
                             ELSE WithExactTarget(smoothPath(m, path),
                                                  targetZone.centerX, targetZone.centerY),
                    !.pathIndex = 0,
                    !.targetState = nextStateInfo.state,
                    !.targetZone = targetZone,
                    !.isMoving = TRUE,
                    !.currentSpeed = MOVE_SPEED])

\* no minimum display time at all
NoMinDisplay(w, e) == FALSE

\* the minimum display time check: TRUE when processStateQueue returns because of it
MinDisplayHolds(w, e) ==
    /\ e.currentStateStartTime # 0
    /\ w.now - e.currentStateStartTime < MIN_STATE_DISPLAY_MS
    /\ Len(e.stateQueue) > 0

\* leaving CODING without giving the workstation back
KeepWorkstation(w, id, e, nextState) == w

\* "Release workstation if leaving CODING"
LeaveCoding(w, id, e, nextState) ==
    IF e.visualState = "CODING" /\ nextState # "CODING"
    THEN releaseWorkstation(w, id) ELSE w

\* a check that never finds the agent in the popped state
NeverShown(e, nextState) == FALSE

\* "Skip if already in this state and not moving"
AlreadyShown(e, nextState) == nextState = e.visualState /\ ~e.isMoving

\* processStateQueue: every world the call can end with
processStateQueue(m, w, id) ==
    LET e == w.entities[id]
    IN IF e.isMoving THEN {w}
       ELSE IF MinDisplayHolds(w, e) THEN {w}
       ELSE IF Len(e.stateQueue) = 0 THEN {w}
       ELSE LET collapsed == CollapseQueue(e.stateQueue)
                nextStateInfo == Head(collapsed)
                nextState == nextStateInfo.state
                w1 == SetEntity(w, id, [e EXCEPT !.stateQueue = Tail(collapsed)])
            IN IF AlreadyShown(e, nextState) THEN {w1}
               ELSE LET w2 == LeaveCoding(w1, id, e, nextState)
                    IN {BeginTransition(m, r.w, id, nextStateInfo, r.zone) :
                           r \in getTargetZone(m, w2, id, nextState)}

(***************************************************************************)
(* entities/movement.js                                                    *)
(***************************************************************************)

\* the delays WANDER_MIN_DELAY_MS + Math.random() * (MAX - MIN)
WanderDelays ==
    {WANDER_MIN_DELAY_MS + (r * (WANDER_MAX_DELAY_MS - WANDER_MIN_DELAY_MS)) \div RandDen :
        r \in Rand}

\* Math.sqrt truncated to an integer
ISqrt(n) == CHOOSE r \in 0..n : r * r <= n /\ (r + 1) * (r + 1) > n

\* a step of no length
MulDivNone(a, b, c) == 0

\* a * b / c truncated towards zero
MulDivTrunc(a, b, c) == IF a >= 0 THEN (a * b) \div c ELSE -(((-a) * b) \div c)

\* an arrival that leaves the entity where path following brought it
StayInPlace(e) == Point(e.x, e.y)

\* "Snap to final position": the target zone's point, else the last waypoint
SnapPoint(e) ==
    IF e.targetZone # NoZone THEN Point(e.targetZone.centerX, e.targetZone.centerY)
    ELSE IF Len(e.path) > 0 THEN e.path[Len(e.path)]
    ELSE Point(e.x, e.y)

\* an arrival that stops the agent and leaves the path data as they are
arriveKeepingPath(m, w, id) ==
    LET e == w.entities[id]
    IN {SetEntity(w, id, [e EXCEPT !.x = SnapPoint(e).x,
                                   !.y = SnapPoint(e).y,
                                   !.isMoving = FALSE,
                                   !.visualState = e.targetState,
                                   !.currentStateStartTime = w.now])}

\* an arrival that stops the agent and clears the path data but goes on showing
\* the state the agent had
arriveWithoutState(m, w, id) ==
    LET e == w.entities[id]
    IN {SetEntity(w, id, [e EXCEPT !.x = SnapPoint(e).x,
                                   !.y = SnapPoint(e).y,
                                   !.isMoving = FALSE,
                                   !.currentStateStartTime = w.now,
                                   !.path = <<>>,
                                   !.pathIndex = 0,
                                   !.targetState = Null,
                                   !.targetZone = NoZone])}

\* arriveAtDestination: every world the call can end with
arriveAtDestination(m, w, id) ==
    LET e == w.entities[id]
        newX == SnapPoint(e).x
        newY == SnapPoint(e).y
        facingDir == IF e.targetZone # NoZone /\ e.targetZone.facing # Null
                     THEN facingToDirection(e.targetZone.facing) ELSE Null
        wanders == e.targetState = "THINKING" \/ e.targetState = "IDLE"
        zoneById == getZoneById(m, e.targetZone.id)
        e1 == [e EXCEPT
                 !.x = newX,
                 !.y = newY,
                 !.isMoving = FALSE,
                 !.visualState = e.targetState,
                 !.currentStateStartTime = w.now,
                 !.direction = IF facingDir # Null THEN facingDir ELSE @,
                 !.wanderZone = IF wanders
                                THEN (IF e.targetZone # NoZone
                                      THEN (IF zoneById # NoZone THEN zoneById
                                            ELSE e.targetZone)
                                      ELSE @)
                                ELSE NoZone,
                 !.path = <<>>,
                 !.pathIndex = 0,
                 !.targetState = Null,
                 !.targetZone = NoZone]
    IN IF wanders
       THEN {SetEntity(w, id, [e1 EXCEPT !.nextWanderTime = w.now + delay]) :
                delay \in WanderDelays}
       ELSE {SetEntity(w, id, e1)}

\* updatePathFollowing with deltaTime in ms: every world the call can end with
updatePathFollowing(m, w, id, deltaTime) ==
    LET e == w.entities[id]
    IN IF e.pathIndex >= Len(e.path) THEN arriveAtDestination(m, w, id)
       ELSE LET target == e.path[e.pathIndex + 1]
                dx == target.x - e.x
                dy == target.y - e.y
                distance2 == dx * dx + dy * dy
            IN IF distance2 < PATH_ARRIVAL_THRESHOLD * PATH_ARRIVAL_THRESHOLD
               THEN LET w1 == SetEntity(w, id, [e EXCEPT !.pathIndex = @ + 1])
                    IN IF e.pathIndex + 1 >= Len(e.path)
                       THEN arriveAtDestination(m, w1, id)
                       ELSE {w1}
               ELSE LET moveDistance == (e.currentSpeed * deltaTime) \div 1000
                        whole == moveDistance * moveDistance >= distance2
                        distance == ISqrt(distance2)
                        stepX == IF whole THEN dx ELSE MulDivTrunc(dx, moveDistance, distance)
                        stepY == IF whole THEN dy ELSE MulDivTrunc(dy, moveDistance, distance)
                    IN {SetEntity(w, id,
                          [e EXCEPT !.x = @ + stepX,
                                    !.y = @ + stepY,
                                    !.direction = getDirection(e.x, e.y, e.x + stepX,
                                                               e.y + stepY)])}

(***************************************************************************)
(* entities/wandering.js, entities/index.js                                *)
(***************************************************************************)

\* the speeds MOVE_SPEED * (0.4 + Math.random() * 0.4)
IdleSpeeds == {(MOVE_SPEED * 4 * (RandDen + r)) \div (10 * RandDen) : r \in Rand}

\* a wander that installs its path without recording the state the agent stays in
WanderInNoTarget(m, w, id, e, zone) ==
    {LET path == findPath(m, e.x, e.y, targetPoint.x, targetPoint.y)
         e1 == IF Len(path) > 1
               THEN [e EXCEPT
                       !.path = WithExactTarget(smoothPath(m, path), targetPoint.x,
                                                targetPoint.y),
                       !.pathIndex = 0,
                       !.targetZone = [zone EXCEPT !.centerX = targetPoint.x,
                                                   !.centerY = targetPoint.y],
                       !.isMoving = TRUE]
               ELSE e
     IN SetEntity(w, id, [e1 EXCEPT !.nextWanderTime = w.now + delay]) :
        targetPoint \in getRandomPointInZone(zone), delay \in WanderDelays}

\* a wander that schedules the next one only when it has installed a path
WanderInIfPath(m, w, id, e, zone) ==
    {LET path == findPath(m, e.x, e.y, targetPoint.x, targetPoint.y)
     IN SetEntity(w, id,
           IF Len(path) > 1
           THEN [e EXCEPT
                   !.path = WithExactTarget(smoothPath(m, path), targetPoint.x,
                                            targetPoint.y),
                   !.pathIndex = 0,
                   !.targetZone = [zone EXCEPT !.centerX = targetPoint.x,
                                               !.centerY = targetPoint.y],
                   !.targetState = e.visualState,
                   !.isMoving = TRUE,
                   !.nextWanderTime = w.now + delay]
           ELSE e) :
        targetPoint \in getRandomPointInZone(zone), delay \in WanderDelays}

\* the tail of updateWandering once the zone is chosen: random point, path, next wander
WanderIn(m, w, id, e, zone) ==
    {LET path == findPath(m, e.x, e.y, targetPoint.x, targetPoint.y)
         e1 == IF Len(path) > 1
               THEN [e EXCEPT
                       !.path = WithExactTarget(smoothPath(m, path), targetPoint.x,
                                                targetPoint.y),
                       !.pathIndex = 0,
                       !.targetZone = [zone EXCEPT !.centerX = targetPoint.x,
                                                   !.centerY = targetPoint.y],
                       !.targetState = e.visualState,
                       !.isMoving = TRUE]
               ELSE e
     IN SetEntity(w, id, [e1 EXCEPT !.nextWanderTime = w.now + delay]) :
        targetPoint \in getRandomPointInZone(zone), delay \in WanderDelays}

\* zones.find(z => the entity's position is inside z)
ZonesContaining(zones, e) ==
    {i \in 1..Len(zones) :
        /\ e.x >= zones[i].x /\ e.x <= zones[i].x + zones[i].width
        /\ e.y >= zones[i].y /\ e.y <= zones[i].y + zones[i].height}

\* a THINKING wander into any thinking zone
AnyZone(zones, e) == {zones[i] : i \in 1..Len(zones)}

\* THINKING: the zones the wander can go to: the recorded wanderZone, else the first
\* zone the entity stands in, else any zone
ThinkingZones(zones, e) ==
    LET inside == ZonesContaining(zones, e)
    IN IF e.wanderZone # NoZone THEN {e.wanderZone}
       ELSE IF inside # {} THEN {zones[CHOOSE i \in inside : \A j \in inside : i <= j]}
       ELSE {zones[i] : i \in 1..Len(zones)}

\* a wander controller that sends an agent into the idle zones whatever its state
updateWanderingAnyState(m, w, id) ==
    UNION {WanderIn(m, w, id, w.entities[id], m.idleZones[i]) : i \in 1..Len(m.idleZones)}

\* updateWandering: every world the call can end with
updateWandering(m, w, id) ==
    LET e == w.entities[id]
        zones == getZonesForState(m, e.visualState)
    IN IF e.visualState # "THINKING" /\ e.visualState # "IDLE"
       THEN {SetEntity(w, id, [e EXCEPT !.wanderZone = NoZone, !.currentSpeed = MOVE_SPEED])}
       ELSE IF w.now < e.nextWanderTime THEN {w}
       ELSE IF Len(zones) = 0 THEN {w}
       ELSE IF e.visualState = "IDLE"
            THEN UNION {WanderIn(m, w, id, [e EXCEPT !.currentSpeed = speed], zones[i]) :
                           i \in 1..Len(zones), speed \in IdleSpeeds}
       ELSE UNION {WanderIn(m, w, id,
                            [e EXCEPT !.wanderZone = IF @ = NoZone THEN zone ELSE @,
                                      !.currentSpeed = MOVE_SPEED],
                            zone) : zone \in ThinkingZones(zones, e)}

\* "Handle path following": the second step of updateEntity
MoveStep(m, w, id, deltaTime) ==
    IF w.entities[id].isMoving /\ Len(w.entities[id].path) > 0
    THEN updatePathFollowing(m, w, id, deltaTime) ELSE {w}

\* a wander step that runs whatever the agent is doing
WanderAlways(e) == TRUE

\* the condition under which updateEntity calls updateWandering
WanderGuard(e) == ~e.isMoving /\ Len(e.stateQueue) = 0

\* "Handle wandering for THINKING/IDLE states": the third step of updateEntity
WanderStep(m, w, id) ==
    IF WanderGuard(w.entities[id]) THEN updateWandering(m, w, id) ELSE {w}

\* updateEntity (entities/index.js) without the animation timer
updateEntity(m, w, id, deltaTime) ==
    UNION {UNION {WanderStep(m, w2, id) : w2 \in MoveStep(m, w1, id, deltaTime)} :
              w1 \in processStateQueue(m, w, id)}

(***************************************************************************)
(* Time.  ms milliseconds pass: now stays at Epoch and the timestamps the  *)
(* code compares with now are lowered by ms.  A timestamp stops at 0,      *)
(* where it is at least Epoch >= MIN_STATE_DISPLAY_MS in the past, which   *)
(* is as far back as the code can tell.  queuedAt is never read by the     *)
(* code and stays as written.                                              *)
(***************************************************************************)

Slide(t, ms) == Max(t - ms, 0)

advanceTime(w, ms) ==
    [w EXCEPT
       !.entities =
           [id \in DOMAIN w.entities |->
               [w.entities[id] EXCEPT
                  !.currentStateStartTime = Slide(@, ms),
                  !.nextWanderTime = Slide(@, ms)]]]

(***************************************************************************)
(* network.js message handlers and the game loop of main.js.  Each runs to *)
(* completion: a message is handled between two frames.                    *)
(***************************************************************************)

Install(w) ==
    /\ entities' = w.entities
    /\ zoneAssignments' = w.zoneAssignments
    /\ entityZoneMap' = w.entityZoneMap
    /\ now' = w.now

handleEntitySpawned(id) ==
    /\ pq.op = "none"
    /\ id \notin DOMAIN entities
    /\ entities' = MapSet(entities, id,
                          createEntity(mapData, now, [entity_id |-> id, state |-> "SPAWNED"]))
    /\ spawnOrder' = Append(spawnOrder, id)
    /\ UNCHANGED <<mapData, zoneAssignments, entityZoneMap, now, pq, pr, frame>>

\* a despawn that forgets the entity and leaves its assignments in the tables
DespawnedKeepingDesk(w, order, id) ==
    [w |-> [w EXCEPT !.entities = MapDelete(@, id)],
     order |-> SelectSeq(order, LAMBDA j : j # id)]

\* the world and the spawn order handleEntityDespawned leaves: cleanupEntity,
\* entities.delete, spawnOrder.filter
Despawned(w, order, id) ==
    [w |-> [clearEntityAssignments(w, id) EXCEPT !.entities = MapDelete(@, id)],
     order |-> SelectSeq(order, LAMBDA j : j # id)]

handleEntityDespawned(id) ==
    /\ pq.op = "none"
    /\ id \in DOMAIN entities
    /\ Install(Despawned(World, spawnOrder, id).w)
    /\ spawnOrder' = Despawned(World, spawnOrder, id).order
    /\ UNCHANGED <<mapData, pq, pr, frame>>

handleEntityState(id, state) ==
    /\ pq.op = "none"
    /\ id \in DOMAIN entities
    /\ Len(entities[id].stateQueue) < MaxQueue
    /\ Install(queueStateChange(World, id, state))
    /\ UNCHANGED <<mapData, spawnOrder, pq, pr, frame>>

\* the entity lists a FULL_STATE message can carry: distinct ids, each with a state
FullStateStates == {"SPAWNED", "CODING"}
FullStateLists(ids) ==
    {l \in UNION {[1..n -> [entity_id : ids, state : FullStateStates]] :
                     n \in 0..Cardinality(ids)} :
        \A a, b \in 1..Len(l) : a # b => l[a].entity_id # l[b].entity_id}

RECURSIVE FullStateFrom(_, _, _)
FullStateFrom(m, w, l) ==
    IF Len(l) = 0 THEN w
    ELSE LET entityData == Head(l)
             w1 == [w EXCEPT !.entities = MapSet(@, entityData.entity_id,
                                                 createEntity(m, w.now, entityData))]
         IN FullStateFrom(m,
                IF entityData.state # "SPAWNED"
                THEN queueStateChange(w1, entityData.entity_id, entityData.state) ELSE w1,
                Tail(l))

handleFullState(l) ==
    /\ pq.op = "none"
    /\ Install(FullStateFrom(mapData, [clearAllAssignments(World) EXCEPT !.entities = EmptyMap], l))
    /\ spawnOrder' = [k \in 1..Len(l) |-> l[k].entity_id]
    /\ UNCHANGED <<mapData, pq, pr, frame>>

\* a loop that the first agent left waiting with its entry put back brings to an end
RECURSIVE updateUntilStuck(_, _, _, _)
updateUntilStuck(m, w, order, deltaTime) ==
    IF Len(order) = 0 THEN {w}
    ELSE UNION {IF /\ ~w1.entities[Head(order)].isMoving
                   /\ Len(w1.entities[Head(order)].stateQueue) > 0
                   /\ ~MinDisplayHolds(w1, w1.entities[Head(order)])
                THEN {w1}
                ELSE updateUntilStuck(m, w1, Tail(order), deltaTime) :
                   w1 \in updateEntity(m, w, Head(order), deltaTime)}

\* update(deltaTime): entities.forEach(updateEntity), in the Map's insertion order
RECURSIVE update(_, _, _, _)
update(m, w, order, deltaTime) ==
    IF Len(order) = 0 THEN {w}
    ELSE UNION {update(m, w1, Tail(order), deltaTime) :
                   w1 \in updateEntity(m, w, Head(order), deltaTime)}

\* the body of gameLoop for a frame ms after the last one; deltaTime is capped
RunFrame(ms) ==
    /\ pq.op = "none"
    /\ \E w \in update(mapData, advanceTime(World, ms), spawnOrder, Min(ms, MAX_DELTA_MS)) :
          Install(w)
    /\ UNCHANGED <<mapData, spawnOrder, pq, pr>>

\* gameLoop where lastFrameTime is not followed
gameLoop(ms) == RunFrame(ms) /\ UNCHANGED frame

\* gameLoop where it is
countedFrame(ms) == RunFrame(ms) /\ frame' = 1 - frame

NoCall == [op |-> "none", pc |-> "done"]

Init ==
    /\ mapData \in EntityMaps
    /\ entities = EmptyMap
    /\ spawnOrder = <<>>
    /\ zoneAssignments = EmptyMap
    /\ entityZoneMap = EmptyMap
    /\ now = Epoch
    /\ pq = NoCall
    /\ pr = NoResult
    /\ frame = 0

Next ==
    \/ \E id \in Agents : handleEntitySpawned(id)
    \/ \E id \in Agents : handleEntityDespawned(id)
    \/ \E id \in Agents, state \in ActivityStates : handleEntityState(id, state)
    \/ \E l \in FullStateLists(Agents) : handleFullState(l)
    \/ \E ms \in FrameIntervals : gameLoop(ms)

Spec == Init /\ [][Next]_vars

\* the same program where a state message can carry any of the game states,
\* SPAWNED included
AnyStateNext ==
    \/ \E id \in Agents : handleEntitySpawned(id)
    \/ \E id \in Agents : handleEntityDespawned(id)
    \/ \E id \in Agents, state \in GAME_STATES : handleEntityState(id, state)
    \/ \E ms \in FrameIntervals : gameLoop(ms)

SpecAnyState == Init /\ [][AnyStateNext]_vars

\* the same program on the map with the walled-in zone
WalledInit ==
    /\ mapData = WalledMap
    /\ entities = EmptyMap
    /\ spawnOrder = <<>>
    /\ zoneAssignments = EmptyMap
    /\ entityZoneMap = EmptyMap
    /\ now = Epoch
    /\ pq = NoCall
    /\ pr = NoResult
    /\ frame = 0

SpecWalled == WalledInit /\ [][Next]_vars

(***************************************************************************)
(* Several agents at the desks: the same handlers, with the state requests *)
(* that send an agent to a fixed zone.                                     *)
(***************************************************************************)

NumDeskAgents == 2
DeskAgents == 1..NumDeskAgents
DeskStates == {"CODING", "PLANNING"}

DeskNext ==
    \/ \E id \in DeskAgents : handleEntitySpawned(id)
    \/ \E id \in DeskAgents : handleEntityDespawned(id)
    \/ \E id \in DeskAgents, state \in DeskStates : handleEntityState(id, state)
    \/ \E l \in FullStateLists(DeskAgents) : handleFullState(l)
    \/ \E ms \in FrameIntervals : gameLoop(ms)

SpecDesk == Init /\ [][DeskNext]_vars

(***************************************************************************)
(* More agents than workstations: a FULL_STATE message has brought every   *)
(* agent in with state CODING (each is created and CODING is queued for    *)
(* it), and from then on only frames happen.                               *)
(***************************************************************************)

NumCodingAgents == 3
CodingAgents == 1..NumCodingAgents

\* the orders in which the message can list the agents
CodingOrders ==
    {l \in [1..NumCodingAgents -> CodingAgents] :
        \A a, b \in 1..NumCodingAgents : a # b => l[a] # l[b]}

EmptyWorld ==
    [entities |-> EmptyMap, zoneAssignments |-> EmptyMap, entityZoneMap |-> EmptyMap,
     now |-> Epoch]

CodingInit ==
    /\ mapData \in {m \in EntityMaps : Len(m.workstations) < NumCodingAgents}
    /\ spawnOrder \in CodingOrders
    /\ entities = FullStateFrom(mapData, EmptyWorld,
                                [k \in 1..NumCodingAgents |->
                                    [entity_id |-> spawnOrder[k], state |-> "CODING"]]).entities
    /\ zoneAssignments = EmptyMap
    /\ entityZoneMap = EmptyMap
    /\ now = Epoch
    /\ pq = NoCall
    /\ pr = NoResult
    /\ frame = 0

CodingNext == \E ms \in FrameIntervals : countedFrame(ms)

\* every frame requests the next one (requestAnimationFrame): frames keep coming.
\* A frame is always possible and every frame changes lastFrameTime, so the
\* fairness is stated on it.
SpecCoding == CodingInit /\ [][CodingNext]_vars /\ WF_frame(frame' = 1 - frame)

(***************************************************************************)
(* One agent that can never be served: a FULL_STATE message has brought in *)
(* a first agent with state PLANNING, on the map without planning zones,   *)
(* and a second agent; from then on the second agent gets state messages   *)
(* and frames happen.                                                      *)
(***************************************************************************)

StuckList == <<[entity_id |-> 1, state |-> "PLANNING"], [entity_id |-> 2, state |-> "SPAWNED"]>>
StuckStates == {"CODING", "THINKING"}

StuckInit ==
    /\ mapData = DeskMap
    /\ spawnOrder = [k \in 1..Len(StuckList) |-> StuckList[k].entity_id]
    /\ entities = FullStateFrom(mapData, EmptyWorld, StuckList).entities
    /\ zoneAssignments = EmptyMap
    /\ entityZoneMap = EmptyMap
    /\ now = Epoch
    /\ pq = NoCall
    /\ pr = NoResult
    /\ frame = 0

StuckNext ==
    \/ \E state \in StuckStates : handleEntityState(spawnOrder[2], state)
    \/ \E ms \in FrameIntervals : countedFrame(ms)

SpecStuck == StuckInit /\ [][StuckNext]_vars /\ WF_frame(frame' = 1 - frame)

(***************************************************************************)
(* The queue on its own: an agent was created one minimum display time     *)
(* ago and state messages have arrived since, at different times; from     *)
(* then on only frames happen.                                             *)
(***************************************************************************)

QueueLen == 4
QueuedStates == {"THINKING", "PLANNING", "CODING"}

\* the queues of up to QueueLen entries, entry k queued at time k * Epoch / (QueueLen + 1)
QueuedLists ==
    UNION {{[k \in 1..n |-> [state |-> f[k], queuedAt |-> (k * Epoch) \div (QueueLen + 1)]] :
               f \in [1..n -> QueuedStates]} : n \in 0..QueueLen}

QueueInit ==
    /\ mapData = DeskMap
    /\ spawnOrder = <<1>>
    /\ \E q \in QueuedLists :
          entities = MapSet(EmptyMap, 1,
                            [createEntity(mapData, 0, [entity_id |-> 1, state |-> "SPAWNED"])
                                EXCEPT !.stateQueue = q])
    /\ zoneAssignments = EmptyMap
    /\ entityZoneMap = EmptyMap
    /\ now = Epoch
    /\ pq = NoCall
    /\ pr = NoResult
    /\ frame = 0

QueueNext == \E ms \in FrameIntervals : gameLoop(ms)

SpecQueue == QueueInit /\ [][QueueNext]_vars

(***************************************************************************)
(* The pathfinder on its own: a call is drawn in the initial state and     *)
(* run by one action.                                                      *)
(***************************************************************************)

TileCalls ==
    {[op |-> "findTilePath", start |-> Point(s[1], s[2]), goal |-> Point(g[1], g[2]),
      pc |-> "call"] : s \in Cells(GridW, GridH), g \in Cells(GridW, GridH)}

\* cells off the right edge of the grid, up to one ring further than the search for
\* a walkable cell goes
FarCells == ((GridW + 1)..(GridW + NEAREST_MAX_RADIUS)) \X {0, GridH - 1}

\* calls with the goal or the start off the grid
FarCalls ==
    {[op |-> "findTilePath", start |-> Point(s[1], s[2]), goal |-> Point(g[1], g[2]),
      pc |-> "call"] : s \in Cells(GridW, GridH), g \in FarCells}
    \cup {[op |-> "findTilePath", start |-> Point(s[1], s[2]), goal |-> Point(g[1], g[2]),
           pc |-> "call"] : s \in FarCells, g \in Cells(GridW, GridH)}

\* pixel points of the wall scenario: a corner and the centre of cells (0,0) and (9,0)
WallCalls ==
    {[op |-> "findPath", startX |-> a, startY |-> a, goalX |-> 9 * PathTile + b, goalY |-> b,
      pc |-> "call"] : a \in {0, PathTile \div 2}, b \in {0, PathTile \div 2}}

\* the raw tile paths the pathfinder hands to smoothPath on map m
RawPaths(m) ==
    {findPath(m, tileToPixel(m, s[1], s[2]).x, tileToPixel(m, s[1], s[2]).y,
              tileToPixel(m, g[1], g[2]).x, tileToPixel(m, g[1], g[2]).y) :
        s \in Cells(GridW, GridH), g \in Cells(GridW, GridH)}

\* every second waypoint of a path: consecutive waypoints are no longer adjacent
Thinned(path) == [i \in 1..((Len(path) + 1) \div 2) |-> path[2 * i - 1]]

\* smoothPath calls: on a raw tile path, and on a list of waypoints that is not one
SmoothCalls(m) ==
    {[op |-> "smoothPath", kind |-> "raw", path |-> p, pc |-> "call"] : p \in RawPaths(m)}
    \cup {[op |-> "smoothPath", kind |-> "thinned", path |-> Thinned(p), pc |-> "call"] :
              p \in RawPaths(m)}

PathInit ==
    /\ pr = NoResult
    /\ \/ mapData \in SmallGridMaps /\ pq \in TileCalls
       \/ mapData \in SmallGridMaps /\ pq \in FarCalls
       \/ mapData \in SmallGridMaps /\ pq \in SmoothCalls(mapData)
       \/ mapData = WallMap /\ pq \in WallCalls
    /\ frame = 0
    /\ entities = EmptyMap
    /\ spawnOrder = <<>>
    /\ zoneAssignments = EmptyMap
    /\ entityZoneMap = EmptyMap
    /\ now = 0

RunFindTilePath ==
    /\ pq.op = "findTilePath" /\ pq.pc = "call"
    /\ pr' = findTilePathRun(mapData, pq.start, pq.goal)
    /\ pq' = [pq EXCEPT !.pc = "done"]
    /\ UNCHANGED <<mapData, entities, spawnOrder, zoneAssignments, entityZoneMap, now, frame>>

RunFindPath ==
    /\ pq.op = "findPath" /\ pq.pc = "call"
    /\ pr' = [path |-> findPath(mapData, pq.startX, pq.startY, pq.goalX, pq.goalY),
              iterations |-> 0]
    /\ pq' = [pq EXCEPT !.pc = "done"]
    /\ UNCHANGED <<mapData, entities, spawnOrder, zoneAssignments, entityZoneMap, now, frame>>

RunSmoothPath ==
    /\ pq.op = "smoothPath" /\ pq.pc = "call"
    /\ pr' = [path |-> smoothPath(mapData, pq.path), iterations |-> 0]
    /\ pq' = [pq EXCEPT !.pc = "done"]
    /\ UNCHANGED <<mapData, entities, spawnOrder, zoneAssignments, entityZoneMap, now, frame>>

\* the same pathfinder call made a second time
RunAgain ==
    /\ pq.op \in {"findTilePath", "findPath"} /\ pq.pc = "done"
    /\ pr' = IF pq.op = "findTilePath"
             THEN [path |-> findTilePath(mapData, pq.start, pq.goal), iterations |-> 0]
             ELSE [path |-> findPath(mapData, pq.startX, pq.startY, pq.goalX, pq.goalY),
                   iterations |-> 0]
    /\ pq' = [pq EXCEPT !.pc = "again"]
    /\ UNCHANGED <<mapData, entities, spawnOrder, zoneAssignments, entityZoneMap, now, frame>>

PathNext == RunFindTilePath \/ RunFindPath \/ RunSmoothPath \/ RunAgain

SpecPath == PathInit /\ [][PathNext]_vars

(***************************************************************************)
(* Properties of the workstation tables                                    *)
(***************************************************************************)

\* C1: in every reachable state each workstation is assigned to at most one agent,
\* each agent holds at most one workstation, and the two tables are exact inverses:
\* zoneAssignments[z] = a if and only if entityZoneMap[a:workstations] = z.
C1_TablesAreInverses ==
    /\ \A z \in DOMAIN zoneAssignments :
          /\ ZoneKey(zoneAssignments[z], "workstations") \in DOMAIN entityZoneMap
          /\ entityZoneMap[ZoneKey(zoneAssignments[z], "workstations")] = z
    /\ \A k \in DOMAIN entityZoneMap :
          /\ k[2] = "workstations"
          /\ entityZoneMap[k] \in DOMAIN zoneAssignments
          /\ zoneAssignments[entityZoneMap[k]] = k[1]
    /\ \A a \in DeskAgents :
          Cardinality({z \in DOMAIN zoneAssignments : zoneAssignments[z] = a}) <= 1

\* both workstations of the map are held, the second one by an agent in CODING
C1_Witness ==
    /\ Cardinality(DOMAIN zoneAssignments) = 2
    /\ \E a \in DOMAIN entities :
          /\ entities[a].visualState = "CODING"
          /\ zoneAssignments["ws2"] = a

(***************************************************************************)
(* Properties of the agents that all want a workstation (SpecCoding)       *)
(***************************************************************************)

Desks == Len(mapData.workstations)
AtDesk == {a \in DOMAIN entities : entities[a].visualState = "CODING"}
DeskBound ==
    {a \in DOMAIN entities :
        entities[a].visualState = "CODING" \/ entities[a].targetState = "CODING"}
Waiting(a) ==
    /\ ~entities[a].isMoving
    /\ Len(entities[a].stateQueue) > 0
    /\ entities[a].stateQueue[1].state = "CODING"

\* C2: with N agents, K < N workstations and CODING queued for every agent, at no
\* time are more than K agents in CODING or on their way to it, eventually exactly K
\* agents are in CODING for good, and every other agent stays not moving with its
\* CODING entry at the front of its queue.
C2_DesksFillAndOthersWait ==
    /\ [](/\ Cardinality(DeskBound) <= Desks
          /\ \A a \in DOMAIN entities \ DeskBound : Waiting(a))
    /\ <>[](/\ Cardinality(AtDesk) = Desks
            /\ Cardinality(DOMAIN entities \ AtDesk) = NumCodingAgents - Desks
            /\ \A a \in DOMAIN entities \ AtDesk : Waiting(a))

\* every workstation is taken by an agent in CODING and an agent without one waits
C2_Witness ==
    /\ Desks < NumCodingAgents
    /\ Cardinality(AtDesk) = Desks
    /\ \E a \in DOMAIN entities \ AtDesk : Waiting(a)

(***************************************************************************)
(* Properties of processStateQueue and of a frame.  The worlds in which    *)
(* the next frame calls updateEntity(id): time has advanced and the        *)
(* entities before id in the Map's order have been updated.                *)
(***************************************************************************)

FrameDeltas == {Min(ms, MAX_DELTA_MS) : ms \in FrameIntervals}

WorldsBefore(id) ==
    LET k == CHOOSE i \in 1..Len(spawnOrder) : spawnOrder[i] = id
    IN UNION {update(mapData, advanceTime(World, ms), SubSeq(spawnOrder, 1, k - 1),
                     Min(ms, MAX_DELTA_MS)) : ms \in FrameIntervals}

\* processStateQueue(id) in world w pops a state other than CODING for an agent whose
\* visualState is CODING
PopsOtherThanCoding(w, id) ==
    LET e == w.entities[id]
    IN /\ e.visualState = "CODING"
       /\ ~e.isMoving
       /\ w.now - e.currentStateStartTime >= MIN_STATE_DISPLAY_MS
       /\ Len(e.stateQueue) > 0
       /\ Head(CollapseQueue(e.stateQueue)).state # "CODING"

\* C3: when processStateQueue pops a state other than CODING for an agent whose
\* visualState is CODING, the workstation the agent held is unoccupied when the call
\* returns; the release comes before the target zone is resolved, so it has happened
\* also when no zone is found and the state is put back.
C3_ReleasedOnReturn ==
    \A id \in DOMAIN entities : \A w \in WorldsBefore(id) :
        LET held == getEntityWorkstation(mapData, w, id)
        IN (PopsOtherThanCoding(w, id) /\ held # NoZone) =>
              \A w2 \in processStateQueue(mapData, w, id) :
                  /\ held.id \notin DOMAIN w2.zoneAssignments
                  /\ getEntityWorkstation(mapData, w2, id) = NoZone

\* an agent at its workstation whose next frame pops a state other than CODING
C3_Witness ==
    \E id \in DOMAIN entities : \E w \in WorldsBefore(id) :
        /\ PopsOtherThanCoding(w, id)
        /\ getEntityWorkstation(mapData, w, id) # NoZone

\* C4: processStateQueue pops or applies nothing while fewer than MIN_STATE_DISPLAY_MS
\* have passed since currentStateStartTime: the call leaves the entity and the tables
\* as they are, so a state queued behind the one just applied stays queued until
\* 4000 ms after the arrival.
C4_NothingPoppedBeforeMinDisplay ==
    \A id \in DOMAIN entities : \A w \in WorldsBefore(id) :
        (w.now - w.entities[id].currentStateStartTime < MIN_STATE_DISPLAY_MS) =>
            processStateQueue(mapData, w, id) = {w}

\* an agent that has arrived in a state less than 4000 ms ago, is not moving and has
\* another state queued
C4_Witness ==
    \E id \in DOMAIN entities : \E w \in WorldsBefore(id) :
        LET e == w.entities[id]
        IN /\ e.visualState \in ActivityStates
           /\ ~e.isMoving
           /\ w.now - e.currentStateStartTime < MIN_STATE_DISPLAY_MS
           /\ Len(e.stateQueue) > 0
           /\ e.stateQueue[1].state # e.visualState

\* C5: while an agent is moving, a state message only appends one entry to the tail
\* of its stateQueue (path, pathIndex, targetState, targetZone, isMoving, visualState
\* and every other field stay as they are), and a frame pops nothing from the queue,
\* the frame in which the movement arrives included.
C5_QueueingLeavesMovementAlone ==
    [][\A id \in DOMAIN entities :
          entities[id].isMoving =>
             /\ \A state \in ActivityStates :
                   handleEntityState(id, state) =>
                      entities'[id] =
                          [entities[id] EXCEPT
                             !.stateQueue = Append(@, [state |-> state, queuedAt |-> now])]
             /\ \A ms \in FrameIntervals :
                   gameLoop(ms) => entities'[id].stateQueue = entities[id].stateQueue]_vars

\* a moving agent with a full queue: an entry was added while it moved
C5_Witness ==
    \E id \in DOMAIN entities :
        /\ entities[id].isMoving
        /\ Len(entities[id].stateQueue) = MaxQueue

\* C6: when arriveAtDestination ends a movement, the agent's (x, y) is exactly the
\* point (centerX, centerY) of the targetZone the movement was started with, wherever
\* path following had brought the agent.
C6_ArrivesAtZonePoint ==
    \A id \in DOMAIN entities : \A w \in WorldsBefore(id) :
        \A w1 \in processStateQueue(mapData, w, id) :
            LET e1 == w1.entities[id]
            IN (e1.isMoving /\ Len(e1.path) > 0) =>
                  \A deltaTime \in FrameDeltas :
                     \A w2 \in updatePathFollowing(mapData, w1, id, deltaTime) :
                        ~w2.entities[id].isMoving =>
                            /\ w2.entities[id].x = e1.targetZone.centerX
                            /\ w2.entities[id].y = e1.targetZone.centerY

\* the next frame ends a state transition of an agent that stands near the last
\* waypoint, not on the target zone's point
C6_Witness ==
    \E id \in DOMAIN entities : \E w \in WorldsBefore(id) :
        \E w1 \in processStateQueue(mapData, w, id) :
            LET e1 == w1.entities[id]
            IN /\ e1.isMoving /\ Len(e1.path) > 0
               /\ e1.targetState # e1.visualState
               /\ e1.x # e1.targetZone.centerX \/ e1.y # e1.targetZone.centerY
               /\ \E deltaTime \in FrameDeltas :
                     \E w2 \in updatePathFollowing(mapData, w1, id, deltaTime) :
                        ~w2.entities[id].isMoving

\* C7: the path of a moving agent, installed by processStateQueue or by
\* updateWandering, has the destination point (the targetZone's centerX, centerY) as
\* its last waypoint, and no other waypoint of the path is that point.
C7_PathEndsAtDestination ==
    \A id \in DOMAIN entities :
        LET e == entities[id]
        IN e.isMoving =>
              /\ e.targetZone # NoZone
              /\ Len(e.path) > 0
              /\ e.path[Len(e.path)] = Point(e.targetZone.centerX, e.targetZone.centerY)
              /\ \A k \in 1..(Len(e.path) - 1) : e.path[k] # e.path[Len(e.path)]

\* a path of several waypoints whose last one is not the centre of its tile: the
\* destination point was appended to the smoothed path
C7_Witness ==
    \E id \in DOMAIN entities :
        LET e == entities[id]
            last == e.path[Len(e.path)]
            tile == pixelToTile(mapData, last.x, last.y)
        IN /\ e.isMoving
           /\ Len(e.path) > 1
           /\ last # tileToPixel(mapData, tile.x, tile.y)

\* a wander movement of a THINKING agent (a state transition never goes to the state
\* the agent is in)
ThinkingWander(id) ==
    /\ entities[id].visualState = "THINKING"
    /\ entities[id].isMoving
    /\ entities[id].targetState = "THINKING"

\* C8: every wander movement of an agent in THINKING targets a point of the zone
\* recorded in its wanderZone: the ids of targetZone and wanderZone are equal.
C8_ThinkingWanderStaysInZone ==
    \A id \in DOMAIN entities :
        ThinkingWander(id) =>
            /\ entities[id].wanderZone # NoZone
            /\ entities[id].targetZone.id = entities[id].wanderZone.id

\* a THINKING agent wandering within think1, on a map with another thinking zone
C8_Witness ==
    \E id \in DOMAIN entities :
        /\ ThinkingWander(id)
        /\ entities[id].wanderZone.id = "think1"
        /\ Len(mapData.thinkingZones) > 1

(***************************************************************************)
(* Properties of the pathfinder                                            *)
(***************************************************************************)

TileCallDone == pq.op = "findTilePath" /\ pq.pc = "done"

WalkableEnds ==
    /\ isTileWalkable(mapData, pq.start.x, pq.start.y)
    /\ isTileWalkable(mapData, pq.goal.x, pq.goal.y)

\* C9: for walkable start and goal cells findTilePath returns a path exactly when
\* the goal is reachable by 4-directional moves over walkable cells, and the path
\* has as many tiles as a breadth-first shortest path (the iteration cap never cuts
\* off a reachable goal).
C9_OptimalTileCount ==
    (TileCallDone /\ WalkableEnds) =>
        LET b == BfsPathTiles(mapData, pq.start, pq.goal)
        IN /\ (pr.path # NoPath) <=> (b # 0)
           /\ Len(pr.path) = b

\* a call that had to go round blocked cells: the path is longer than the Manhattan one
C9_Witness ==
    /\ TileCallDone /\ WalkableEnds
    /\ Len(pr.path) > heuristic(pq.start, pq.goal) + 1

WallCallDone == pq.op = "findPath" /\ pq.pc = "done" /\ mapData = WallMap

\* C10 as stated: on the wall grid findPath from cell (0,0) to cell (9,0) returns 19 tiles
C10_NineteenTiles == WallCallDone => Len(pr.path) = 19

\* C10 amended: on the wall grid findPath from cell (0,0) to cell (9,0) returns a path
\* of 28 tiles (9 down, 9 across, 9 up), the breadth-first optimum on that grid.
C10_WallPathIsBfsOptimum ==
    WallCallDone =>
        /\ Len(pr.path) = 28
        /\ Len(pr.path) = BfsPathTiles(mapData, Point(0, 0), Point(9, 0))
        /\ pr.path[1] = tileToPixel(mapData, 0, 0)
        /\ pr.path[Len(pr.path)] = tileToPixel(mapData, 9, 0)

C10_Witness == WallCallDone /\ pr.path # NoPath

SmoothCallDone == pq.op = "smoothPath" /\ pq.pc = "done"

RECURSIVE IsSubsequence(_, _)
IsSubsequence(a, b) ==
    IF Len(a) = 0 THEN TRUE
    ELSE IF Len(b) = 0 THEN FALSE
    ELSE IF Head(a) = Head(b) THEN IsSubsequence(Tail(a), Tail(b))
    ELSE IsSubsequence(a, Tail(b))

\* C13: smoothPath returns an order-preserving subsequence of its input, no longer
\* than the input, with the input's first and last points; an input of fewer than 3
\* points is returned unchanged.
C13_SmoothedIsSubsequence ==
    SmoothCallDone =>
        /\ IsSubsequence(pr.path, pq.path)
        /\ Len(pr.path) <= Len(pq.path)
        /\ Len(pq.path) > 0 =>
              /\ Len(pr.path) > 0
              /\ pr.path[1] = pq.path[1]
              /\ pr.path[Len(pr.path)] = pq.path[Len(pq.path)]
        /\ Len(pq.path) < 3 => pr.path = pq.path

\* an input of three or more waypoints that came back shorter
C13_Witness ==
    /\ SmoothCallDone /\ pq.kind = "thinned"
    /\ Len(pq.path) >= 3 /\ Len(pr.path) < Len(pq.path)

\* the cells that 4-directional moves over walkable cells reach from the cells in seen
RECURSIVE ReachableCells(_, _)
ReachableCells(m, seen) ==
    LET next == (UNION {WalkableNeighbors(m, c) : c \in seen}) \ seen
    IN IF next = {} THEN seen ELSE ReachableCells(m, seen \cup next)

\* C14: findTilePath terminates: its loop makes at most 2 x tilesX x tilesY
\* iterations, whatever the grid, start and goal; between walkable cells it expands
\* no cell twice, and when the goal cannot be reached it ends with no path once
\* every reachable cell has been expanded.
C14_SearchEnds ==
    TileCallDone =>
        /\ pr.iterations <= 2 * mapData.map.width * mapData.map.height
        /\ WalkableEnds =>
              LET reach == ReachableCells(mapData, {<<pq.start.x, pq.start.y>>})
              IN /\ pr.iterations <= Cardinality(reach)
                 /\ <<pq.goal.x, pq.goal.y>> \notin reach =>
                       pr.path = NoPath /\ pr.iterations = Cardinality(reach)

\* a search that ran out of cells: walkable ends, several iterations, no path
C14_Witness ==
    /\ TileCallDone /\ WalkableEnds
    /\ pr.path = NoPath /\ pr.iterations > 1

(***************************************************************************)
(* Properties of a failing transition, of despawn and of the order of the  *)
(* steps of updateEntity                                                   *)
(***************************************************************************)

\* processStateQueue(id) in world w pops an entry and goes on to resolve its zone
Pops(w, id) ==
    LET e == w.entities[id]
    IN /\ ~e.isMoving
       /\ ~MinDisplayHolds(w, e)
       /\ Len(e.stateQueue) > 0
       /\ Head(CollapseQueue(e.stateQueue)).state # e.visualState

PoppedInfo(w, id) == Head(CollapseQueue(w.entities[id].stateQueue))

\* the (world, zone) pairs getTargetZone can return for the popped entry
Resolutions(w, id) ==
    LET e == w.entities[id]
        w1 == SetEntity(w, id, [e EXCEPT !.stateQueue = Tail(CollapseQueue(e.stateQueue))])
    IN getTargetZone(mapData, LeaveCoding(w1, id, e, PoppedInfo(w, id).state), id,
                     PoppedInfo(w, id).state)

\* r is a resolved zone that the pathfinder finds no path to
NoPathTo(w, id, r) ==
    /\ r.zone # NoZone
    /\ findPath(mapData, w.entities[id].x, w.entities[id].y,
                r.zone.centerX, r.zone.centerY) = NoPath

\* C15 as stated: when the target zone is resolved and the pathfinder finds no path
\* to it, the popped entry is back at the front of stateQueue and the agent has not
\* started moving.
C15_RequeuedWhenNoPath ==
    \A id \in DOMAIN entities : \A w \in WorldsBefore(id) :
        Pops(w, id) =>
            \A r \in Resolutions(w, id) :
                NoPathTo(w, id, r) =>
                    LET e2 == BeginTransition(mapData, r.w, id, PoppedInfo(w, id),
                                              r.zone).entities[id]
                    IN /\ ~e2.isMoving
                       /\ Len(e2.stateQueue) > 0
                       /\ Head(e2.stateQueue) = PoppedInfo(w, id)

\* the next frame pops an entry whose zone is resolved and cannot be reached
C15_Witness ==
    \E id \in DOMAIN entities : \E w \in WorldsBefore(id) :
        /\ Pops(w, id)
        /\ \E r \in Resolutions(w, id) : NoPathTo(w, id, r)

\* C16: when the zone of the popped entry cannot be resolved (no free workstation,
\* or no zone of the category), processStateQueue puts the entry back at the front
\* of stateQueue and leaves isMoving, visualState, targetState, targetZone, path,
\* pathIndex, the position and every other field of the agent as they were.
C16_RequeuedWhenNoZone ==
    \A id \in DOMAIN entities : \A w \in WorldsBefore(id) :
        (Pops(w, id) /\ \A r \in Resolutions(w, id) : r.zone = NoZone) =>
            \A w2 \in processStateQueue(mapData, w, id) :
                /\ Len(w2.entities[id].stateQueue) > 0
                /\ Head(w2.entities[id].stateQueue) = PoppedInfo(w, id)
                /\ w2.entities[id] =
                       [w.entities[id] EXCEPT !.stateQueue = CollapseQueue(@)]

\* the next frame pops CODING for an agent while every workstation is taken
C16_Witness ==
    \E id \in DOMAIN entities : \E w \in WorldsBefore(id) :
        /\ Pops(w, id)
        /\ PoppedInfo(w, id).state = "CODING"
        /\ \A r \in Resolutions(w, id) : r.zone = NoZone

\* the first agent of the update order retries PLANNING and has never left SPAWNED
Stuck(a) ==
    /\ ~entities[a].isMoving
    /\ entities[a].visualState = "SPAWNED"
    /\ Len(entities[a].stateQueue) > 0
    /\ Head(entities[a].stateQueue).state = "PLANNING"

\* C17: an agent that retries a failing transition on every tick forever does not
\* stop the update loop or delay the other agent: in every frame the other agent
\* makes the step it would make on its own, and the state at the front of its
\* queue becomes its visualState.
C17_OthersServedWhileOneRetries ==
    /\ [](Stuck(spawnOrder[1]))
    /\ [][frame' # frame =>
            \E ms \in FrameIntervals :
               \E w \in updateEntity(mapData, advanceTime(World, ms), spawnOrder[2],
                                     Min(ms, MAX_DELTA_MS)) :
                  entities'[spawnOrder[2]] = w.entities[spawnOrder[2]]]_vars
    /\ \A state \in StuckStates :
          (/\ Len(entities[spawnOrder[2]].stateQueue) > 0
           /\ Head(entities[spawnOrder[2]].stateQueue).state = state)
             ~> (entities[spawnOrder[2]].visualState = state)

\* the first agent is past its minimum display time and retrying, the second has
\* reached CODING and has its next state queued
C17_Witness ==
    /\ Len(spawnOrder) = 2
    /\ Stuck(spawnOrder[1])
    /\ now - entities[spawnOrder[1]].currentStateStartTime >= MIN_STATE_DISPLAY_MS
    /\ entities[spawnOrder[2]].visualState = "CODING"
    /\ Len(entities[spawnOrder[2]].stateQueue) > 0

\* C18: handling a despawn for an agent, whatever the agent is doing, leaves no
\* workstation assigned to it and takes it out of entities and spawnOrder; the
\* workstation it held is free, and an agent without one can be assigned one.
C18_DespawnFreesWorkstation ==
    \A id \in DOMAIN entities :
        LET r == Despawned(World, spawnOrder, id)
            held == getEntityWorkstation(mapData, World, id)
        IN /\ id \notin DOMAIN r.w.entities
           /\ \A k \in 1..Len(r.order) : r.order[k] # id
           /\ \A z \in DOMAIN r.w.zoneAssignments : r.w.zoneAssignments[z] # id
           /\ \A k \in DOMAIN r.w.entityZoneMap : k[1] # id
           /\ held # NoZone =>
                 /\ held.id \notin DOMAIN r.w.zoneAssignments
                 /\ \A other \in DOMAIN r.w.entities :
                       getEntityWorkstation(mapData, r.w, other) = NoZone =>
                           assignWorkstation(mapData, r.w, other).zone # NoZone

\* an agent on its way to the only workstation while another waits for one
C18_Witness ==
    \E a, b \in DOMAIN entities :
        /\ a # b
        /\ entities[a].isMoving /\ entities[a].targetState = "CODING"
        /\ getEntityWorkstation(mapData, World, a) # NoZone
        /\ Len(entities[b].stateQueue) > 0
        /\ Head(entities[b].stateQueue).state = "CODING"
        /\ assignWorkstation(mapData, World, b).zone = NoZone

EndOfTick(id) ==
    UNION {{w2.entities[id] : w2 \in updateEntity(mapData, w, id, Min(ms, MAX_DELTA_MS))} :
              w \in WorldsBefore(id), ms \in FrameIntervals}

Pending(e) == Len(e.stateQueue) > 0
Moving(e) == e.isMoving
Settled(e) == ~e.isMoving /\ Len(e.stateQueue) = 0

\* C20 as stated: at the end of every tick each agent satisfies exactly one of:
\* stateQueue is non-empty; isMoving is true; isMoving is false and stateQueue is empty.
C20_ExactlyOneMode ==
    \A id \in DOMAIN entities : \A e \in EndOfTick(id) :
        /\ Pending(e) \/ Moving(e) \/ Settled(e)
        /\ ~(Pending(e) /\ Moving(e))
        /\ ~(Pending(e) /\ Settled(e))
        /\ ~(Moving(e) /\ Settled(e))

\* C20 amended: at the end of every tick each agent is moving to a target (isMoving,
\* with a target state, a target zone and waypoints left), or is not moving and has
\* no path and no target; an agent that is not moving is settled or has a
\* transition pending, never both; a moving agent may have transitions pending.
C20_ModesAtEndOfTick ==
    \A id \in DOMAIN entities : \A e \in EndOfTick(id) :
        /\ Moving(e) =>
              /\ e.targetState # Null /\ e.targetZone # NoZone
              /\ e.pathIndex < Len(e.path)
        /\ ~Moving(e) =>
              /\ e.targetState = Null /\ e.targetZone = NoZone
              /\ e.path = <<>> /\ e.pathIndex = 0
              /\ Settled(e) # Pending(e)
        /\ ~(Settled(e) /\ (Moving(e) \/ Pending(e)))

\* a tick that ends with the agent moving and a transition pending
C20_Witness ==
    \E id \in DOMAIN entities : \E e \in EndOfTick(id) : Moving(e) /\ Pending(e)

(***************************************************************************)
(* Properties of the state fields and of the queue                         *)
(***************************************************************************)

\* C21: an agent record starts with visualState SPAWNED; once visualState has left
\* SPAWNED no state message (SPAWNED included), frame or arrival sets visualState
\* back to SPAWNED, and targetState is never SPAWNED.
C21_NeverBackToSpawned ==
    /\ [](\A id \in DOMAIN entities : entities[id].targetState # "SPAWNED")
    /\ [][\A id \in DOMAIN entities' :
             IF id \notin DOMAIN entities
             THEN entities'[id].visualState = "SPAWNED"
             ELSE entities[id].visualState # "SPAWNED" =>
                     entities'[id].visualState # "SPAWNED"]_vars

\* an agent that has left SPAWNED, is past its minimum display time and has SPAWNED
\* at the front of its queue
C21_Witness ==
    \E id \in DOMAIN entities :
        /\ entities[id].visualState # "SPAWNED"
        /\ ~entities[id].isMoving
        /\ now - entities[id].currentStateStartTime >= MIN_STATE_DISPLAY_MS
        /\ Len(entities[id].stateQueue) > 0
        /\ Head(entities[id].stateQueue).state = "SPAWNED"

\* C22 as stated: after a state message with state s has been handled for an
\* existing agent, the state field of the agent record equals s.
C22_StateIsLatestRequest ==
    \A id \in DOMAIN entities : \A s \in ActivityStates :
        queueStateChange(World, id, s).entities[id].state = s

\* an agent that has completed the transition to CODING: visualState shows the
\* requested state while the state field still holds the value given at creation
C22_Witness ==
    \E id \in DOMAIN entities :
        /\ entities[id].visualState = "CODING"
        /\ entities[id].state = "SPAWNED"

\* processStateQueue(id) in world w gets as far as collapsing the queue
Collapses(w, id) ==
    /\ ~w.entities[id].isMoving
    /\ ~MinDisplayHolds(w, w.entities[id])
    /\ Len(w.entities[id].stateQueue) > 0

\* the length of the run of equal states at the front of a non-empty queue
FrontRun(q) ==
    CHOOSE n \in 1..Len(q) :
        /\ \A i \in 1..n : q[i].state = q[1].state
        /\ n = Len(q) \/ q[n + 1].state # q[1].state

\* the queue with every run of equal states reduced to the first entry of the run
KeepFirsts(q) ==
    SelectSeq([i \in 1..Len(q) |-> [entry |-> q[i],
                                     first |-> i = 1 \/ q[i].state # q[Max(i - 1, 1)].state]],
              LAMBDA r : r.first)

\* C23 as stated: when processStateQueue processes the queue, every run of
\* consecutive entries with the same state, anywhere in the queue, is reduced to one
\* entry, the first of the run: the queue left is the reduced queue, with or without
\* its front entry.
C23_EveryRunKeepsFirst ==
    \A id \in DOMAIN entities : \A w \in WorldsBefore(id) :
        Collapses(w, id) =>
            LET reduced == [i \in 1..Len(KeepFirsts(w.entities[id].stateQueue)) |->
                               KeepFirsts(w.entities[id].stateQueue)[i].entry]
            IN \A w2 \in processStateQueue(mapData, w, id) :
                  w2.entities[id].stateQueue \in {reduced, Tail(reduced)}

\* C23 amended: when processStateQueue processes the queue, only the run of equal
\* states at the front is reduced to one entry, and the entry kept is the last of
\* that run; the entries behind the run stay as they are, runs included.  The queue
\* left starts at the last entry of the front run (entry put back) or just behind it.
C23_FrontRunKeepsLast ==
    \A id \in DOMAIN entities : \A w \in WorldsBefore(id) :
        Collapses(w, id) =>
            LET q == w.entities[id].stateQueue
            IN \A w2 \in processStateQueue(mapData, w, id) :
                  /\ w2.entities[id].stateQueue \in
                        {SubSeq(q, FrontRun(q), Len(q)), SubSeq(q, FrontRun(q) + 1, Len(q))}
                  /\ (~w2.entities[id].isMoving /\ q[1].state # w.entities[id].visualState) =>
                        w2.entities[id].stateQueue = SubSeq(q, FrontRun(q), Len(q))

\* a queue with a run of two at the front, whose entry is put back, and a run of two
\* behind it
C23_Witness ==
    \E id \in DOMAIN entities : \E w \in WorldsBefore(id) :
        LET q == w.entities[id].stateQueue
        IN /\ Collapses(w, id)
           /\ Len(q) = 4
           /\ FrontRun(q) = 2
           /\ q[3].state = q[4].state
           /\ \E w2 \in processStateQueue(mapData, w, id) :
                  w2.entities[id].stateQueue = Tail(q)

\* C24: when the entry popped by processStateQueue has the state the agent's
\* visualState already shows, the entry (with the run it closes) is dropped and
\* nothing else changes: no movement starts, the workstation tables stay as they
\* are, and every other field of the agent keeps its value.
C24_SameStateDropped ==
    \A id \in DOMAIN entities : \A w \in WorldsBefore(id) :
        (Collapses(w, id) /\ PoppedInfo(w, id).state = w.entities[id].visualState) =>
            processStateQueue(mapData, w, id) =
                {SetEntity(w, id, [w.entities[id] EXCEPT
                                      !.stateQueue = Tail(CollapseQueue(@))])}

\* an agent coding at its workstation for which CODING is popped
C24_Witness ==
    \E id \in DOMAIN entities : \E w \in WorldsBefore(id) :
        /\ Collapses(w, id)
        /\ PoppedInfo(w, id).state = "CODING"
        /\ w.entities[id].visualState = "CODING"
        /\ getEntityWorkstation(mapData, w, id) # NoZone

(***************************************************************************)
(* Properties of the wander controller and of arrival                      *)
(***************************************************************************)

\* the worlds in which a frame can reach the wander step of agent id
WorldsBeforeWander(id) ==
    UNION {UNION {UNION {MoveStep(mapData, w1, id, deltaTime) : deltaTime \in FrameDeltas} :
                     w1 \in processStateQueue(mapData, w, id)} :
              w \in WorldsBefore(id)}

\* updateEntity calls updateWandering in world w for a THINKING or IDLE agent whose
\* next wander is due
WanderDue(w, id) ==
    /\ WanderGuard(w.entities[id])
    /\ w.entities[id].visualState \in {"THINKING", "IDLE"}
    /\ w.now >= w.entities[id].nextWanderTime

\* C25: every run of the wander controller for a THINKING or IDLE agent whose next
\* wander is due leaves nextWanderTime in [now + 3000, now + 6000), whether it has
\* installed a path or not.
C25_WanderRescheduled ==
    \A id \in DOMAIN entities : \A w \in WorldsBeforeWander(id) :
        WanderDue(w, id) =>
            \A w2 \in updateWandering(mapData, w, id) :
                /\ w2.entities[id].nextWanderTime >= w.now + WANDER_MIN_DELAY_MS
                /\ w2.entities[id].nextWanderTime < w.now + WANDER_MAX_DELAY_MS

\* a due wander that installs no path: the point drawn is in the agent's own tile
C25_Witness ==
    \E id \in DOMAIN entities : \E w \in WorldsBeforeWander(id) :
        /\ WanderDue(w, id)
        /\ \E w2 \in updateWandering(mapData, w, id) : ~w2.entities[id].isMoving

\* C26: the wander step starts a movement only for an agent that is not moving, has
\* an empty stateQueue, has visualState THINKING or IDLE and whose nextWanderTime
\* has come; run for an agent in SPAWNED, PLANNING or CODING it starts no movement
\* and leaves wanderZone null and currentSpeed at MOVE_SPEED, and nothing else changed.
C26_WanderOnlyWhenIdleOrThinking ==
    \A id \in DOMAIN entities : \A w \in WorldsBeforeWander(id) :
        \A w2 \in WanderStep(mapData, w, id) :
            /\ (w2.entities[id].isMoving /\ ~w.entities[id].isMoving) => WanderDue(w, id)
            /\ (/\ WanderGuard(w.entities[id])
                /\ w.entities[id].visualState \in {"SPAWNED", "PLANNING", "CODING"}) =>
                   /\ ~w2.entities[id].isMoving
                   /\ w2 = SetEntity(w, id, [w.entities[id] EXCEPT
                                                !.wanderZone = NoZone,
                                                !.currentSpeed = MOVE_SPEED])

\* the wander controller is run for an agent that sits in PLANNING with an empty
\* queue while a wander time recorded earlier has passed
C26_Witness ==
    \E id \in DOMAIN entities : \E w \in WorldsBeforeWander(id) :
        /\ WanderGuard(w.entities[id])
        /\ w.entities[id].visualState = "PLANNING"
        /\ w.now >= w.entities[id].nextWanderTime

\* the arrivals a frame can bring for agent id: the entity as path following was
\* called for it, and the entity as arriveAtDestination left it
Arrivals(id) ==
    UNION {UNION {UNION {{[before |-> w1.entities[id], after |-> w2.entities[id],
                           now |-> w2.now] :
                            w2 \in {x \in MoveStep(mapData, w1, id, deltaTime) :
                                       w1.entities[id].isMoving /\ ~x.entities[id].isMoving}} :
                            deltaTime \in FrameDeltas} :
                     w1 \in processStateQueue(mapData, w, id)} :
              w \in WorldsBefore(id)}

\* C27: immediately after arriveAtDestination isMoving is false, visualState is the
\* targetState the agent had before the call, path is empty, pathIndex is 0, and
\* targetState and targetZone are null.
C27_ArrivalClearsMovement ==
    \A id \in DOMAIN entities : \A a \in Arrivals(id) :
        /\ ~a.after.isMoving
        /\ a.after.visualState = a.before.targetState
        /\ a.after.path = <<>>
        /\ a.after.pathIndex = 0
        /\ a.after.targetState = Null
        /\ a.after.targetZone = NoZone

\* the arrival of a transition, after a path of several waypoints
C27_Witness ==
    \E id \in DOMAIN entities : \E a \in Arrivals(id) :
        /\ a.before.targetState # a.before.visualState
        /\ Len(a.before.path) > 1

\* C28: after an arrival wanderZone is null when the new visualState is PLANNING or
\* CODING; when it is THINKING or IDLE, wanderZone is the zone of that category with
\* the id of the target zone reached, as the map has it, and nextWanderTime is in
\* [now + 3000, now + 6000).
C28_WanderZoneAfterArrival ==
    \A id \in DOMAIN entities : \A a \in Arrivals(id) :
        IF a.after.visualState \in {"THINKING", "IDLE"}
        THEN LET zones == getZonesForState(mapData, a.after.visualState)
             IN /\ \E i \in 1..Len(zones) :
                      /\ zones[i].id = a.before.targetZone.id
                      /\ a.after.wanderZone = zones[i]
                /\ a.after.nextWanderTime >= a.now + WANDER_MIN_DELAY_MS
                /\ a.after.nextWanderTime < a.now + WANDER_MAX_DELAY_MS
        ELSE a.after.wanderZone = NoZone

\* an arrival in THINKING at a point of the zone that is not the zone's centre
C28_Witness ==
    \E id \in DOMAIN entities : \E a \in Arrivals(id) :
        /\ a.after.visualState = "THINKING"
        /\ a.before.visualState # "THINKING"
        /\ a.before.targetZone.centerX # a.after.wanderZone.centerX

\* C29 as stated: currentStateStartTime is the time at which the current visualState
\* was entered: an arrival that changes visualState sets it to the time of the
\* arrival, and the arrival of a wander movement, which does not change visualState,
\* leaves it as it was.
C29_StartTimeIsStateEntry ==
    \A id \in DOMAIN entities : \A a \in Arrivals(id) :
        IF a.after.visualState # a.before.visualState
        THEN a.after.currentStateStartTime = a.now
        ELSE a.after.currentStateStartTime = a.before.currentStateStartTime

\* the arrival of a wander movement
C29_Witness ==
    \E id \in DOMAIN entities : \E a \in Arrivals(id) :
        /\ a.before.targetState = a.before.visualState
        /\ a.after.visualState = a.before.visualState
        /\ a.before.currentStateStartTime < a.now

(***************************************************************************)
(* Properties of the replacement of blocked cells                          *)
(***************************************************************************)

\* the walkable cells on the square ring of radius r around cell c
WalkableOnRing(m, c, r) ==
    {Point(x, y) : <<x, y>> \in
        {n \in ((c.x - r)..(c.x + r)) \X ((c.y - r)..(c.y + r)) :
            /\ Max(Abs(n[1] - c.x), Abs(n[2] - c.y)) = r
            /\ isTileWalkable(m, n[1], n[2])}}

\* the cells c may be resolved to: c itself when walkable, else the walkable cells of
\* the smallest ring of radius 1..NEAREST_MAX_RADIUS that has one
ResolvedCells(m, c) ==
    IF isTileWalkable(m, c.x, c.y) THEN {c}
    ELSE LET radii == {r \in 1..NEAREST_MAX_RADIUS : WalkableOnRing(m, c, r) # {}}
         IN IF radii = {} THEN {}
            ELSE WalkableOnRing(m, c, CHOOSE r \in radii : \A r2 \in radii : r <= r2)

BlockedEnd ==
    \/ ~isTileWalkable(mapData, pq.start.x, pq.start.y)
    \/ ~isTileWalkable(mapData, pq.goal.x, pq.goal.y)

\* the path of the finished call runs between a cell start resolves to and a cell
\* goal resolves to, and is the single cell when the two are the same
RunsBetweenResolved ==
    pr.path # NoPath =>
        /\ pr.path[1] \in ResolvedCells(mapData, pq.start)
        /\ pr.path[Len(pr.path)] \in ResolvedCells(mapData, pq.goal)
        /\ pr.path[1] = findNearestWalkable(mapData, pq.start.x, pq.start.y)
        /\ pr.path[Len(pr.path)] = findNearestWalkable(mapData, pq.goal.x, pq.goal.y)
        /\ pr.path[1] = pr.path[Len(pr.path)] => Len(pr.path) = 1

\* C30 as stated: a blocked goal or start cell is replaced by a walkable cell of the
\* smallest ring of radius 1 to 5 that has one, a walkable cell is not replaced, the
\* result is the single cell when both resolve to the same cell, and with a blocked
\* end findTilePath returns none if and only if no cell within radius 5 is walkable.
C30_NoneOnlyWhenNothingNear ==
    TileCallDone =>
        /\ RunsBetweenResolved
        /\ BlockedEnd =>
              ((pr.path = NoPath) <=>
                  (\/ ResolvedCells(mapData, pq.start) = {}
                   \/ ResolvedCells(mapData, pq.goal) = {}))

\* C30 amended: a blocked goal or start cell is replaced by a walkable cell of the
\* smallest ring of radius 1 to 5 that has one, and the replacement fails, so that
\* findTilePath returns none, if and only if no cell within radius 5 is walkable; a
\* walkable cell is not replaced; when both resolve to the same cell the result is
\* that single cell; otherwise findTilePath returns none exactly when there is no
\* path between the two resolved cells.
C30_BlockedEndsResolved ==
    TileCallDone =>
        LET s == findNearestWalkable(mapData, pq.start.x, pq.start.y)
            g == findNearestWalkable(mapData, pq.goal.x, pq.goal.y)
        IN /\ RunsBetweenResolved
           /\ (s = NoTile) <=> (ResolvedCells(mapData, pq.start) = {})
           /\ (g = NoTile) <=> (ResolvedCells(mapData, pq.goal) = {})
           /\ s # NoTile => s \in ResolvedCells(mapData, pq.start)
           /\ g # NoTile => g \in ResolvedCells(mapData, pq.goal)
           /\ (s = NoTile \/ g = NoTile) => pr.path = NoPath
           /\ (s # NoTile /\ g # NoTile) =>
                 /\ s = g => pr.path = <<g>>
                 /\ (pr.path = NoPath) <=> (BfsPathTiles(mapData, s, g) = 0)

\* a call with a blocked goal that is replaced by a cell no path leads to: none is
\* returned although a walkable cell is next to the goal
C30_Witness ==
    /\ TileCallDone
    /\ isTileWalkable(mapData, pq.start.x, pq.start.y)
    /\ ~isTileWalkable(mapData, pq.goal.x, pq.goal.y)
    /\ ResolvedCells(mapData, pq.goal) # {}
    /\ pr.path = NoPath

(***************************************************************************)
(* An agent whose first transition can never start: a FULL_STATE message   *)
(* has brought it in with state PLANNING on the map without planning       *)
(* zones, state messages have queued further states behind it, and more    *)
(* arrive between the frames.                                              *)
(***************************************************************************)

StarveLen == 3

\* the states queued behind the first one
LaterLists == UNION {[1..n -> ActivityStates] : n \in 0..StarveLen}

RECURSIVE QueueAll(_, _, _)
QueueAll(w, id, l) ==
    IF Len(l) = 0 THEN w ELSE QueueAll(queueStateChange(w, id, Head(l)), id, Tail(l))

StarveInit ==
    /\ mapData = DeskMap
    /\ spawnOrder = <<1>>
    /\ \E l \in LaterLists :
          entities = QueueAll(FullStateFrom(mapData, EmptyWorld,
                                            <<[entity_id |-> 1, state |-> "PLANNING"]>>),
                              1, l).entities
    /\ zoneAssignments = EmptyMap
    /\ entityZoneMap = EmptyMap
    /\ now = Epoch
    /\ pq = NoCall
    /\ pr = NoResult
    /\ frame = 0

StarveNext ==
    \/ \E state \in ActivityStates : handleEntityState(spawnOrder[1], state)
    \/ \E ms \in FrameIntervals : gameLoop(ms)

SpecStarve == StarveInit /\ [][StarveNext]_vars

(***************************************************************************)
(* Properties of a queue whose front entry cannot be served                *)
(***************************************************************************)

\* no zone can be resolved for the entry at the front of the queue of agent id
FrontFails(id) ==
    LET e == entities[id]
        state == Head(e.stateQueue).state
    IN /\ ~e.isMoving
       /\ state # e.visualState
       /\ \A r \in getTargetZone(mapData, LeaveCoding(World, id, e, state), id, state) :
             r.zone = NoZone

DrainLen == 3

DrainLists == UNION {[1..n -> ActivityStates] : n \in 0..DrainLen}

DrainInit ==
    /\ mapData \in EntityMaps
    /\ spawnOrder = <<1>>
    /\ \E l \in DrainLists :
          entities = QueueAll(FullStateFrom(mapData, EmptyWorld,
                                            <<[entity_id |-> 1, state |-> "SPAWNED"]>>),
                              1, l).entities
    /\ zoneAssignments = EmptyMap
    /\ entityZoneMap = EmptyMap
    /\ now = Epoch
    /\ pq = NoCall
    /\ pr = NoResult
    /\ frame = 0

DrainNext == \E ms \in FrameIntervals : countedFrame(ms)

SpecDrain == DrainInit /\ [][DrainNext]_vars /\ WF_frame(frame' = 1 - frame)

(***************************************************************************)
(* Properties of a queue that is left alone                                *)
(***************************************************************************)

\* the states an agent still has to show, in order: the one it is moving to, then
\* the queued ones
Upcoming(e) ==
    (IF e.isMoving THEN <<e.targetState>> ELSE <<>>)
        \o [k \in 1..Len(e.stateQueue) |-> e.stateQueue[k].state]

\* the state the agent shows once everything before it has been applied
Eventual(e) ==
    IF Len(Upcoming(e)) > 0 THEN Upcoming(e)[Len(Upcoming(e))] ELSE e.visualState

\* some queued state of agent id has no zone to go to
Unresolvable(id) ==
    \E k \in 1..Len(entities[id].stateQueue) :
        \A r \in getTargetZone(mapData, World, id, entities[id].stateQueue[k].state) :
            r.zone = NoZone

\* a tick takes the upcoming states from the front, in order: nothing changes, or
\* the first upcoming state (and the equal ones right behind it) is shown or is the
\* one now moved to, or a wander starts when nothing is upcoming
InQueueOrder(e, e2) ==
    LET u == Upcoming(e)
        u2 == Upcoming(e2)
    IN \/ u2 = u /\ e2.visualState = e.visualState
       \/ \E k \in 1..Len(u) :
             /\ \A j \in 1..k : u[j] = u[1]
             /\ \/ u2 = SubSeq(u, k + 1, Len(u)) /\ e2.visualState = u[1]
                \/ u2 = <<u[1]>> \o SubSeq(u, k + 1, Len(u))
                      /\ e2.visualState = e.visualState
       \/ u = <<>> /\ u2 = <<e.visualState>> /\ e2.visualState = e.visualState

\* C32: when no further state requests or despawns arrive and every queued state's
\* target zone can be resolved, then under frames that keep coming every agent
\* eventually has an empty stateQueue and a visualState equal to the last state that
\* was queued for it (its prior visualState when nothing was queued), for good; and
\* the states are applied in the order in which they were queued.
C32_QueueDrainsInOrder ==
    /\ [][\A id \in DOMAIN entities :
             /\ InQueueOrder(entities[id], entities'[id])
             /\ Eventual(entities'[id]) = Eventual(entities[id])]_vars
    /\ <>[](\A id \in DOMAIN entities :
               \/ Unresolvable(id)
               \/ /\ Len(entities[id].stateQueue) = 0
                  /\ entities[id].visualState = Eventual(entities[id]))

\* the queue is empty and the agent has been settled in PLANNING, a state that was
\* queued for it, for the minimum display time or longer
C32_Witness ==
    \E id \in DOMAIN entities :
        /\ Len(entities[id].stateQueue) = 0
        /\ ~entities[id].isMoving
        /\ entities[id].visualState = "PLANNING"
        /\ entities[id].currentStateStartTime = 0


(***************************************************************************)
(* Properties of who holds a workstation                                   *)
(***************************************************************************)

HoldsWorkstation(id) == getEntityWorkstation(mapData, World, id) # NoZone

\* C33: in every reachable state an agent holds a workstation assignment only if its
\* visualState is CODING or it is moving with targetState CODING; an agent that is
\* settled in, or moving to, THINKING, PLANNING or IDLE holds none, and no
\* workstation is assigned to an agent that is gone.
C33_NoWorkstationLeaked ==
    /\ \A id \in DOMAIN entities :
          LET e == entities[id]
          IN /\ HoldsWorkstation(id) =>
                   \/ e.visualState = "CODING"
                   \/ e.isMoving /\ e.targetState = "CODING"
             /\ (\/ ~e.isMoving /\ e.visualState \in {"THINKING", "PLANNING", "IDLE"}
                 \/ e.isMoving /\ e.targetState \in {"THINKING", "PLANNING", "IDLE"})
                   => ~HoldsWorkstation(id)
    /\ \A z \in DOMAIN zoneAssignments : zoneAssignments[z] \in DOMAIN entities
    /\ \A k \in DOMAIN entityZoneMap : k[1] \in DOMAIN entities

\* an agent that was in CODING is on its way to THINKING, its workstation given back
C33_Witness ==
    \E id \in DOMAIN entities :
        /\ entities[id].visualState = "CODING"
        /\ entities[id].isMoving
        /\ entities[id].targetState = "THINKING"
        /\ ~HoldsWorkstation(id)
        /\ zoneAssignments = EmptyMap

\* C34 as stated: in every reachable state every agent whose visualState is CODING
\* and which is not moving holds a workstation assignment.
C34_SettledCodingHoldsWorkstation ==
    \A id \in DOMAIN entities :
        (entities[id].visualState = "CODING" /\ ~entities[id].isMoving)
            => HoldsWorkstation(id)

\* an agent settled in CODING has given its workstation back in a call that found
\* no zone for the popped state and put the state back
C34_Witness ==
    \E id \in DOMAIN entities :
        /\ entities[id].visualState = "CODING"
        /\ ~entities[id].isMoving
        /\ ~HoldsWorkstation(id)
        /\ Len(entities[id].stateQueue) > 0
        /\ Head(entities[id].stateQueue).state = "PLANNING"
        /\ Len(getZonesForState(mapData, "PLANNING")) = 0

(***************************************************************************)
(* Properties of the movement fields between two ticks                     *)
(***************************************************************************)

\* C35: at the end of every tick, for every agent: isMoving implies that path is not
\* empty, 0 <= pathIndex <= length of path, and targetState and targetZone are set;
\* not isMoving implies that path is empty, pathIndex is 0 and targetState and
\* targetZone are null.
C35_MovementFieldsConsistent ==
    \A id \in DOMAIN entities :
        LET e == entities[id]
        IN IF e.isMoving
           THEN /\ Len(e.path) > 0
                /\ 0 <= e.pathIndex /\ e.pathIndex <= Len(e.path)
                /\ e.targetState # Null
                /\ e.targetZone # NoZone
           ELSE /\ Len(e.path) = 0
                /\ e.pathIndex = 0
                /\ e.targetState = Null
                /\ e.targetZone = NoZone

\* a tick has ended with the agent past the first of several waypoints, and an
\* earlier movement of the agent has ended in an arrival
C35_Witness ==
    \E id \in DOMAIN entities :
        /\ entities[id].isMoving
        /\ entities[id].pathIndex > 0
        /\ Len(entities[id].path) > 1
        /\ entities[id].visualState # "SPAWNED"

(***************************************************************************)
(* Properties of visualState                                               *)
(***************************************************************************)

\* C36: with only the four activity states queued, in every reachable state each
\* agent's visualState is one of SPAWNED, THINKING, PLANNING, CODING, IDLE, never
\* null or another value: every arrival finds a targetState that is an activity
\* state; a wander movement is started with targetState equal to visualState, and
\* the arrival that ends it leaves visualState what it was when the wander started.
C36_VisualStateIsAGameState ==
    \A id \in DOMAIN entities :
        /\ entities[id].visualState \in GAME_STATES
        /\ \A w \in WorldsBeforeWander(id) : \A w2 \in WanderStep(mapData, w, id) :
              (w2.entities[id].isMoving /\ ~w.entities[id].isMoving) =>
                  /\ w2.entities[id].visualState = w.entities[id].visualState
                  /\ w2.entities[id].targetState = w.entities[id].visualState
                  /\ w2.entities[id].targetState \in {"THINKING", "IDLE"}
        /\ \A a \in Arrivals(id) :
              /\ a.before.targetState \in ActivityStates
              /\ a.after.visualState \in ActivityStates
              /\ a.before.targetState = a.before.visualState =>
                    a.after.visualState = a.before.visualState

\* the arrival that ends a wander movement of an agent in IDLE
C36_Witness ==
    \E id \in DOMAIN entities : \E a \in Arrivals(id) :
        /\ a.before.visualState = "IDLE"
        /\ a.before.targetState = "IDLE"
        /\ a.after.visualState = "IDLE"

(***************************************************************************)
(* Properties of the tile path                                             *)
(***************************************************************************)

\* C37: every tile path findTilePath returns starts at the start cell, or at the
\* walkable cell that replaced it, ends at the goal cell, or at the walkable cell
\* that replaced it, contains only walkable cells of the grid, has each consecutive
\* pair of cells 4-adjacent (they differ by exactly 1 in exactly one coordinate),
\* and visits no cell twice.
C37_TilePathIsAWalk ==
    (TileCallDone /\ pr.path # NoPath) =>
        LET path == pr.path
        IN /\ path[1] = findNearestWalkable(mapData, pq.start.x, pq.start.y)
           /\ path[Len(path)] = findNearestWalkable(mapData, pq.goal.x, pq.goal.y)
           /\ isTileWalkable(mapData, pq.start.x, pq.start.y) => path[1] = pq.start
           /\ isTileWalkable(mapData, pq.goal.x, pq.goal.y) => path[Len(path)] = pq.goal
           /\ \A i \in 1..Len(path) :
                 /\ path[i].x \in 0..(mapData.map.width - 1)
                 /\ path[i].y \in 0..(mapData.map.height - 1)
                 /\ isTileWalkable(mapData, path[i].x, path[i].y)
           /\ \A i \in 1..(Len(path) - 1) :
                 Abs(path[i + 1].x - path[i].x) + Abs(path[i + 1].y - path[i].y) = 1
           /\ \A i, j \in 1..Len(path) : i # j => path[i] # path[j]

\* a path to the cell that replaced a blocked goal, round a blocked cell
C37_Witness ==
    /\ TileCallDone
    /\ ~isTileWalkable(mapData, pq.goal.x, pq.goal.y)
    /\ Len(pr.path) >= 4
    /\ Len(pr.path) > heuristic(pr.path[1], pr.path[Len(pr.path)]) + 1

(***************************************************************************)
(* Properties of where an agent can be                                     *)
(***************************************************************************)

\* the grid cell of the pixel point p is walkable
OnWalkable(p) ==
    isTileWalkable(mapData, pixelToTile(mapData, p.x, p.y).x,
                   pixelToTile(mapData, p.x, p.y).y)

\* C38 as stated: every waypoint of every path installed on an agent, by
\* processStateQueue or by the wander controller, lies in a walkable grid cell, and
\* an agent following its path and snapping to its target on arrival is never
\* positioned in a blocked cell.
C38_NeverInBlockedCell ==
    \A id \in DOMAIN entities :
        /\ \A i \in 1..Len(entities[id].path) : OnWalkable(entities[id].path[i])
        /\ OnWalkable(entities[id])

\* an agent on the straight segment between two waypoints of a smoothed path, both
\* in walkable cells, is in a blocked cell
C38_Witness ==
    \E id \in DOMAIN entities :
        /\ entities[id].isMoving
        /\ Len(entities[id].path) > 1
        /\ entities[id].pathIndex > 0
        /\ \A i \in 1..Len(entities[id].path) : OnWalkable(entities[id].path[i])
        /\ ~OnWalkable(entities[id])

(***************************************************************************)
(* Properties of a movement                                                *)
(***************************************************************************)

\* the waypoint the agent is heading for
NextWaypoint(e) == e.path[e.pathIndex + 1]

\* the square of the distance from the agent to point p
Distance2(e, p) == (p.x - e.x) * (p.x - e.x) + (p.y - e.y) * (p.y - e.y)

\* e2 is nearer to point p than e and has not gone past it
CloserTo(e, e2, p) ==
    /\ Distance2(e2, p) < Distance2(e, p)
    /\ (p.x - e.x) * (p.x - e2.x) >= 0 /\ Abs(p.x - e2.x) <= Abs(p.x - e.x)
    /\ (p.y - e.y) * (p.y - e2.y) >= 0 /\ Abs(p.y - e2.y) <= Abs(p.y - e.y)

\* C39: every movement ends: under frames that keep coming, each with a positive
\* deltaTime, an agent with isMoving true reaches arriveAtDestination (isMoving
\* false); during the movement pathIndex never decreases, and each tick either
\* advances pathIndex by one, the agent staying where it is, or leaves pathIndex as it
\* is and brings the agent closer to path[pathIndex] without passing it.
C39_EveryMovementEnds ==
    /\ \A id \in Agents :
          (id \in DOMAIN entities /\ entities[id].isMoving)
              ~> (id \in DOMAIN entities /\ ~entities[id].isMoving)
    /\ [][\A id \in DOMAIN entities :
             LET e == entities[id]
                 e2 == entities'[id]
             IN (e.isMoving /\ e2.isMoving) =>
                   /\ e2.path = e.path
                   /\ \/ /\ e2.pathIndex = e.pathIndex + 1
                         /\ e2.x = e.x /\ e2.y = e.y
                      \/ /\ e2.pathIndex = e.pathIndex
                         /\ CloserTo(e, e2, NextWaypoint(e))]_vars

\* an agent moving at the slowest speed of an IDLE wander, more than one step away
\* from the second waypoint of its path
C39_Witness ==
    \E id \in DOMAIN entities :
        /\ entities[id].isMoving
        /\ entities[id].currentSpeed < MOVE_SPEED
        /\ entities[id].pathIndex > 0
        /\ Distance2(entities[id], NextWaypoint(entities[id])) > 15 * 15

(***************************************************************************)
(* Properties of the claim of a workstation                                *)
(***************************************************************************)

\* the workstations nobody occupies in world w, as positions in the listing order
Unoccupied(w) ==
    {i \in 1..Len(mapData.workstations) :
        mapData.workstations[i].id \notin DOMAIN w.zoneAssignments}

\* in world w agent id is not moving, has CODING at the front of its queue, has had
\* its current state for the minimum display time, and a workstation is unoccupied
CanClaim(w, id) ==
    LET e == w.entities[id]
    IN /\ ~e.isMoving
       /\ Len(e.stateQueue) > 0
       /\ Head(e.stateQueue).state = "CODING"
       /\ w.now - e.currentStateStartTime >= MIN_STATE_DISPLAY_MS
       /\ Unoccupied(w) # {}

\* processStateQueue has left agent id in w2 with the first workstation that was
\* unoccupied in w, on its way to it
ClaimedFirst(w, w2, id) ==
    \E i \in Unoccupied(w) :
        /\ \A j \in Unoccupied(w) : i <= j
        /\ w2.zoneAssignments = MapSet(w.zoneAssignments, mapData.workstations[i].id, id)
        /\ getEntityWorkstation(mapData, w2, id) = mapData.workstations[i]
        /\ w2.entities[id].isMoving
        /\ w2.entities[id].targetState = "CODING"
        /\ w2.entities[id].targetZone = mapData.workstations[i]

\* C40 as stated: an agent that is not moving, has CODING at the front of its
\* stateQueue and has had its state for 4000 ms or more is, in a tick that finds a
\* workstation unoccupied, assigned the first unoccupied workstation in listing order
\* and starts moving to it.
C40_ClaimsFirstUnoccupied ==
    \A id \in DOMAIN entities : \A w \in WorldsBefore(id) :
        CanClaim(w, id) =>
            \A w2 \in processStateQueue(mapData, w, id) : ClaimedFirst(w, w2, id)

\* C40 amended: an agent that is not moving, is not shown in CODING, has CODING at
\* the front of its stateQueue and has had its state for 4000 ms or more is, in a
\* tick that finds a workstation unoccupied, assigned the first unoccupied
\* workstation in listing order and starts moving to it, so that a workstation freed
\* by a release or a despawn is claimed by a waiting agent in its next such tick; an
\* agent shown in CODING drops the entry and claims nothing.
C40_WaitingAgentClaimsFirstUnoccupied ==
    \A id \in DOMAIN entities : \A w \in WorldsBefore(id) :
        CanClaim(w, id) =>
            \A w2 \in processStateQueue(mapData, w, id) :
                IF w.entities[id].visualState # "CODING"
                THEN ClaimedFirst(w, w2, id)
                ELSE /\ w2.zoneAssignments = w.zoneAssignments
                     /\ w2.entityZoneMap = w.entityZoneMap
                     /\ ~w2.entities[id].isMoving
                     /\ w2.entities[id].stateQueue = Tail(CollapseQueue(w.entities[id].stateQueue))

\* an agent waits for the only workstation, which the other agent, on its way from
\* CODING to PLANNING, gave back in the last tick
C40_Witness ==
    \E id, other \in DOMAIN entities : \E w \in WorldsBefore(id) :
        /\ id # other
        /\ CanClaim(w, id)
        /\ w.entities[id].visualState # "CODING"
        /\ Len(mapData.workstations) = 1
        /\ entities[other].visualState = "CODING"
        /\ entities[other].isMoving
        /\ entities[other].targetState = "PLANNING"

====
